---- MODULE Spec2Model ----
(***************************************************************************)
(* Update protocol of the DR knowledge chatbot: UpdateService of           *)
(* app/services/chatbot/update_service.py together with the parts of       *)
(* VectorStore, MetadataService and DataProcessor it drives.               *)
(*                                                                         *)
(* A snapshot (an .xlsx file) is a record: kind "corrupt" for a file that  *)
(* load_excel cannot read, otherwise the loaded DataFrame, reduced to its  *)
(* required-columns flag and a map ENTRY_# -> SUMMARY.  Timestamps are     *)
(* readings of a clock with the resolution of the ids built from them.     *)
(***************************************************************************)
EXTENDS Integers, Sequences, FiniteSets, TLC

\* ------------------------------------------------------------------ bounds
MaxId == 2
MaxUploads == 2
MaxConcUploads == 2
MaxLaterUploads == 1
MaxTexts == 3
MaxDocs == 3
MaxTokens == 1400
MaxPhrases == 2
MaxHistory == 2
MaxRows == 2
MaxSlack == 1
MaxSends == 13
MaxWait == 3
MaxEvents == 3
MaxCallers == 3
MaxWaiters == 2
MaxThreads == 2

Ids == 1..MaxId
Summaries == {"a", "b"}
Procs == {1, 2}

\* ----------------------------------------------------------- data model
\* Optional values: None is the empty set, a present value v is {v}.
None == {}
Some(v) == {v}
The(s) == CHOOSE v \in s : TRUE

RowMaps == UNION {[S -> Summaries] : S \in SUBSET Ids}

CorruptFile == [kind |-> "corrupt", cols |-> FALSE, rows |-> << >>]
DataFrame(c, r) == [kind |-> "xlsx", cols |-> c, rows |-> r]

\* The files a user can upload: unreadable, missing a required column,
\* an empty table, or any table over Ids.
Files ==
  {CorruptFile, DataFrame(FALSE, [i \in Ids |-> "a"])}
    \cup {DataFrame(TRUE, r) : r \in RowMaps}

Event(i, s) == [entry_id |-> i, summary |-> s]
Chunk(e) == [event_id |-> e.entry_id, chunk_index |-> 0, text |-> e.summary]

\* validate_data without the empty-table check.
validate_data_no_empty_check(df) == df.cols

\* DataProcessor.validate_data: 'valid' iff no error was appended.
validate_data(df) == df.cols /\ DOMAIN df.rows # {}

\* DataProcessor.extract_events: one Event per row that has an ENTRY_#.
extract_events(df) == {Event(i, df.rows[i]) : i \in DOMAIN df.rows}

\* DataProcessor.chunk_events: every modelled event fits the chunk size and
\* becomes the single chunk "<entry_id>_0".
chunk_events(events) == {Chunk(e) : e \in events}

\* ChangeSet and its methods.
ChangeSet(n, m, d) == [new_events |-> n, modified_events |-> m, deleted_events |-> d]

is_empty(cs) ==
  /\ Cardinality(cs.new_events) = 0
  /\ Cardinality(cs.modified_events) = 0
  /\ Cardinality(cs.deleted_events) = 0

summary(cs) ==
  [new |-> Cardinality(cs.new_events),
   modified |-> Cardinality(cs.modified_events),
   deleted |-> Cardinality(cs.deleted_events)]

\* The events of df whose ENTRY_# is in ids (new_df[...isin(ids)]).
EventsWithIds(df, ids) == {e \in extract_events(df) : e.entry_id \in ids}

\* UpdateService._detect_changes: cur is the optional current snapshot.
detect_changes(cur, new_df) ==
  IF cur = None
  THEN ChangeSet(extract_events(new_df), {}, {})
  ELSE
    LET old_df == The(cur)
        new_ids == DOMAIN new_df.rows \ DOMAIN old_df.rows
        deleted_ids == DOMAIN old_df.rows \ DOMAIN new_df.rows
        common_ids == DOMAIN new_df.rows \cap DOMAIN old_df.rows
        modified_ids == {i \in common_ids : old_df.rows[i] # new_df.rows[i]}
    IN  ChangeSet(EventsWithIds(new_df, new_ids),
                  EventsWithIds(new_df, modified_ids),
                  {})

\* UpdateResult; version_id "" is the empty tuple, changes None by default.
EmptyVersion == << >>
VersionId(t) == <<"v", t>>
InitialVersion == <<"v_initial">>

UpdateResult(ok, msg, vid, bid, ch, err) ==
  [success |-> ok, message |-> msg, version_id |-> vid, backup_id |-> bid, changes |-> ch,
   error |-> err]

NoBackupNeeded == <<"no_backup_needed">>
BackupId(t) == <<"backup", t>>

\* MetadataService.cleanup_old_backups default retention (days).
RetentionDays == 2

\* DataProcessor.__init__: chunk window and overlap, in tokens.
ChunkSize == 512
ChunkOverlap == 100

\* _reciprocal_rank_fusion: default of the RRF constant k.
RrfK == 60

\* RetrievalService.retrieve: candidates asked of the vector store.
RetrieveCandidates == 100

\* RAGOrchestrator.chat: top_k handed to retrieve.
ChatTopK == 10

\* embed_batch: threshold used when the configuration gives none.
DefaultBatchThreshold == 500

\* _embed_direct: texts per request once the batch exceeds 250K tokens.
DirectChunkSize == 100

\* get_update_history: default limit.
HistoryLimit == 10

\* --------------------------------------------------------------- state
VARIABLES
  now,            \* wall clock (datetime.now())
  collection,     \* VectorStore: the chunks held by the ChromaDB collection
  current_db,     \* UpdateService.current_db_path: None or Some(snapshot)
  backups,        \* files of UpdateService.backups_dir
  metadata,       \* MetadataService.metadata
  pc,             \* position of each process_upload call
  new_file,       \* the uploaded file of each call
  version_id,     \* local version_id of each call
  has_existing_data, \* local has_existing_data of each call
  changeset,      \* local changeset of each call
  backup_id,      \* local backup_id of each call: None until step 4 has run
  chunks,         \* local chunks of each call
  result,         \* the UpdateResult each call returned
  pre,            \* collection, snapshot, backups and metadata when the call began
  seen,           \* result of a semantic_search issued in the current state, if any
  started         \* number of process_upload calls begun

VARIABLES
  cache,          \* EmbeddingService.cache: the text hashes that have a vector
  batch_threshold, \* config CHATBOT_BATCH_THRESHOLD
  embed_call      \* the last embed_batch call: arguments, dispatch, result

VARIABLES
  chroma,         \* ids of the documents in the ChromaDB collection
  handle,         \* VectorStore.collection: "none", "live", or "stale" (deleted)
  answer,         \* the last search, retrieve or chat call and what it gave
  reranking_enabled, \* RetrievalService.reranking_enabled
  log             \* the messages logged by RetrievalService

VARIABLES
  tokens,         \* encoding.encode(event.to_text()) of the event being chunked
  event_chunks    \* the chunks chunk_events made of it, once it has run

VARIABLES
  phrases,        \* the phrases the query text is made of
  today,          \* datetime.now() of the call, as a date
  time_filters    \* what _extract_time_filters returned, once it has run

VARIABLES
  metadata_file,  \* metadata.json as the metadata operations leave it
  meta_return     \* the last metadata operation and what it returned

VARIABLES
  table,          \* the DataFrame handed to validate_data and extract_events
  validation,     \* what validate_data returned, once it has run
  extracted       \* what extract_events returned, once it has run

VARIABLES
  authenticated,  \* current_user.is_authenticated
  session,        \* the Flask session's login_time and last_activity entries
  utcnow,         \* datetime.utcnow(), in seconds
  timeouts,       \* SESSION_ACTIVITY_TIMEOUT and SESSION_INACTIVITY_TIMEOUT
  timeout_check   \* the last call of check_session_timeout: inputs and result

VARIABLES
  chatbot_history,  \* session['chatbot_history'], absent until first used
  said,             \* every message added since the history was last emptied
  sends             \* how many messages have been answered so far

VARIABLES
  batch,          \* the bulk job as client.batches.retrieve shows it
  wait,           \* the call of wait_for_batch: where it is and what it holds
  wall            \* time.time(), in poll ticks

VARIABLES
  event_sizes,    \* the token count of each event handed to chunk_events
  all_chunks      \* the list chunk_events returned, once it has run

\* OpenAIQueue: the tracked requests by id, the queue, the worker flag,
\* the current worker thread (0: none), every worker thread started, the
\* calling threads, and the order of the puts and of the function starts.
VARIABLES
  q_requests,
  q_queue,
  q_running,
  q_worker_thread,
  q_threads,
  q_callers,
  q_put,
  q_started

update_vars == <<now, collection, current_db, backups, metadata, pc, new_file, version_id,
                 has_existing_data, changeset, backup_id, chunks, result, pre, seen, started>>

embed_vars == <<cache, batch_threshold, embed_call>>

store_vars == <<chroma, handle, answer, reranking_enabled, log>>

chunk_vars == <<tokens, event_chunks>>

query_vars == <<phrases, today, time_filters>>

meta_vars == <<metadata_file, meta_return>>

table_vars == <<table, validation, extracted>>

session_vars == <<authenticated, session, utcnow, timeouts, timeout_check>>

chat_vars == <<chatbot_history, said, sends>>

batch_vars == <<batch, wait, wall>>

split_vars == <<event_sizes, all_chunks>>

queue_vars == <<q_requests, q_queue, q_running, q_worker_thread, q_threads,
               q_callers, q_put, q_started>>

vars == <<update_vars, embed_vars, store_vars, chunk_vars, query_vars, meta_vars, table_vars, session_vars, chat_vars, batch_vars, split_vars, queue_vars>>

\* What each component's operations leave alone.
outside_update == <<embed_vars, store_vars, chunk_vars, query_vars,
                    meta_vars, table_vars, session_vars, chat_vars,
                    batch_vars, split_vars, queue_vars>>
outside_embed == <<update_vars, store_vars, chunk_vars, query_vars,
                   meta_vars, table_vars, session_vars, chat_vars,
                   batch_vars, split_vars, queue_vars>>
outside_store == <<update_vars, embed_vars, chunk_vars, query_vars,
                   meta_vars, table_vars, session_vars, chat_vars,
                   batch_vars, split_vars, queue_vars>>
outside_chunk == <<update_vars, embed_vars, store_vars, query_vars,
                   meta_vars, table_vars, session_vars, chat_vars,
                   batch_vars, split_vars, queue_vars>>
outside_query == <<update_vars, embed_vars, store_vars, chunk_vars,
                   meta_vars, table_vars, session_vars, chat_vars,
                   batch_vars, split_vars, queue_vars>>
\* The metadata operations work on metadata and collection as well.
outside_meta == <<now, current_db, backups, pc, new_file, version_id,
                  has_existing_data, changeset, backup_id, chunks, result,
                  pre, seen, started, embed_vars, store_vars, chunk_vars,
                  query_vars, table_vars, session_vars, chat_vars,
                  batch_vars, split_vars, queue_vars>>
outside_table == <<update_vars, embed_vars, store_vars, chunk_vars,
                   query_vars, meta_vars, session_vars, chat_vars,
                   batch_vars, split_vars, queue_vars>>
outside_session == <<update_vars, embed_vars, store_vars, chunk_vars,
                     query_vars, meta_vars, table_vars, chat_vars,
                     batch_vars, split_vars, queue_vars>>
outside_chat == <<update_vars, embed_vars, store_vars, chunk_vars,
                  query_vars, meta_vars, table_vars, session_vars,
                  batch_vars, split_vars, queue_vars>>
\* wait_for_batch stores the collected vectors in the embedding cache.
outside_batch == <<update_vars, batch_threshold, embed_call, store_vars,
                   chunk_vars, query_vars, meta_vars, table_vars,
                   session_vars, chat_vars, split_vars, queue_vars>>
outside_split == <<update_vars, embed_vars, store_vars, chunk_vars,
                   query_vars, meta_vars, table_vars, session_vars,
                   chat_vars, batch_vars, queue_vars>>
outside_queue == <<update_vars, embed_vars, store_vars, chunk_vars,
                   query_vars, meta_vars, table_vars, session_vars,
                   chat_vars, batch_vars, split_vars>>

locals == <<new_file, version_id, has_existing_data, changeset, backup_id, chunks>>

\* MetadataService._default_metadata
default_metadata ==
  [current_version |-> [id |-> InitialVersion, total_events |-> 0, total_chunks |-> 0],
   update_history |-> << >>]

\* record_update that replaces the current version but forgets the history.
record_update_no_history(md, vid, total_events, total_chunks, changes, status) ==
  [current_version |-> [id |-> vid, total_events |-> total_events,
                        total_chunks |-> total_chunks],
   update_history |-> md.update_history]

\* MetadataService.record_update
record_update(md, vid, total_events, total_chunks, changes, status) ==
  [current_version |-> [id |-> vid, total_events |-> total_events,
                        total_chunks |-> total_chunks],
   update_history |-> Append(md.update_history,
                             [version_id |-> vid, changes |-> changes,
                              status |-> status, total_events |-> total_events])]

BackupFile(name, suffix, stamp, content) ==
  [name |-> name, suffix |-> suffix, stamp |-> stamp, content |-> content]

\* UpdateService._create_backup: the backup id and the backups directory after.
create_backup_id(cur, t) == IF cur = None THEN NoBackupNeeded ELSE BackupId(t)

create_backup_files(cur, t, bks) ==
  IF cur = None THEN bks
  ELSE {b \in bks : ~(b.name = BackupId(t) /\ b.suffix = "xlsx")}
         \cup {BackupFile(BackupId(t), "xlsx", t, The(cur))}

\* UpdateService._rollback: the current snapshot after rolling back to bid.
rollback(bid, cur, bks) ==
  LET found == {b \in bks : b.name = bid /\ b.suffix = "xlsx"}
  IN  IF found = {} THEN cur ELSE Some(The(found).content)

\* MetadataService.cleanup_old_backups: glob("backup_*.db"), older than cutoff.
cleanup_old_backups(bks, t, retention_days) ==
  {b \in bks : ~(b.suffix = "db" /\ b.stamp < t - retention_days)}

\* VectorStore.create_collection(reset=True)
create_collection_reset(coll) == {}

\* VectorStore.add_documents: ids already in the collection keep their record.
add_documents(coll, cks) ==
  coll \cup {c \in cks : ~\E d \in coll : d.event_id = c.event_id /\ d.chunk_index = c.chunk_index}

Snapshot == [collection |-> collection, current_db |-> current_db,
             backups |-> backups, metadata |-> metadata]

InitialSnapshot == [collection |-> {}, current_db |-> None,
                    backups |-> {}, metadata |-> default_metadata]

Idle(p) == pc[p] \in {"idle", "done"}

UpdateInit ==
  /\ now = 0
  /\ collection = {}
  /\ current_db = None
  /\ backups = {}
  /\ metadata = default_metadata
  /\ pc = [p \in Procs |-> "idle"]
  /\ new_file = [p \in Procs |-> CorruptFile]
  /\ version_id = [p \in Procs |-> EmptyVersion]
  /\ has_existing_data = [p \in Procs |-> FALSE]
  /\ changeset = [p \in Procs |-> ChangeSet({}, {}, {})]
  /\ backup_id = [p \in Procs |-> None]
  /\ chunks = [p \in Procs |-> {}]
  /\ result = [p \in Procs |-> None]
  /\ pre = [p \in Procs |-> InitialSnapshot]
  /\ seen = None
  /\ started = 0

\* EmbeddingService.__init__ with no cache file on disk; th is the configured
\* threshold.
EmbedInit(th) ==
  /\ cache = {}
  /\ batch_threshold = th
  /\ embed_call = None

\* VectorStore.__init__ over a persisted collection holding docs.
\* RetrievalService.__init__, lines 43-51, with loaded telling whether
\* CrossEncoder(...) returned or raised.
StoreInit(docs, loaded) ==
  /\ chroma = docs
  /\ handle = "none"
  /\ answer = None
  /\ reranking_enabled = loaded
  /\ log = IF loaded THEN {"Cross-encoder re-ranker loaded successfully"}
           ELSE {"Could not load re-ranker. Re-ranking disabled."}

\* DataProcessor with the event text toks about to be chunked.
ChunkInit(toks) ==
  /\ tokens = toks
  /\ event_chunks = None

\* QueryProcessor about to read the query made of the phrases ps, on day d.
QueryInit(ps, d) ==
  /\ phrases = ps
  /\ today = d
  /\ time_filters = None

\* MetadataService.__init__ with no metadata.json on disk.
MetaInit ==
  /\ metadata_file = [kind |-> "absent"]
  /\ meta_return = None

\* DataProcessor about to validate the DataFrame df.
TableInit(df) ==
  /\ table = df
  /\ validation = None
  /\ extracted = None

\* config.py, lines 37-38, and the test configuration of conftest.py.
SessionActivityTimeout == 14400
SessionInactivityTimeout == 1800
TestActivityTimeout == 3600
TestInactivityTimeout == 600

DefaultTimeouts ==
  [activity |-> SessionActivityTimeout, inactivity |-> SessionInactivityTimeout]

\* What a session entry can hold: nothing (session.get gives None), an empty
\* string, a string that is not a timestamp, or the ISO text of the instant t.
NoValue == [kind |-> "none", t |-> 0]
EmptyString == [kind |-> "empty", t |-> 0]
NotATimestamp == [kind |-> "garbage", t |-> 0]

\* session.clear()
ClearedSession == [login_time |-> NoValue, last_activity |-> NoValue]

\* A request context with the given user state, session, clock and
\* configuration, in which check_session_timeout has not been called.
SessionInit(auth, sess, t, cfg) ==
  /\ authenticated = auth
  /\ session = sess
  /\ utcnow = t
  /\ timeouts = cfg
  /\ timeout_check = None

\* A fresh session: no chat history entry yet.
ChatInit ==
  /\ chatbot_history = None
  /\ said = << >>
  /\ sends = 0

\* A bulk job: its status, the content hashes of the texts submitted, and
\* the hashes in its output file (None when the job has no output file).
BatchJob(status, hashes, output) ==
  [status |-> status, hashes |-> hashes, output |-> output]

NoJob == BatchJob("none", {}, None)

\* No call of wait_for_batch yet.
NotWaiting ==
  [pc |-> "idle", timeout |-> 0, poll_interval |-> 0, start_time |-> 0,
   seen |-> "none", results |-> None]

\* The embedding service next to the job it may have to wait for.
BatchInit(job) ==
  /\ batch = job
  /\ wait = NotWaiting
  /\ wall = 0

\* DataProcessor about to chunk events of the given token counts.
SplitInit(sizes) ==
  /\ event_sizes = sizes
  /\ all_chunks = None

\* A request id that enqueue has not registered, and the request enqueue
\* creates (OpenAIRequest): no result, no error, not completed.
NoRequest == [callback |-> "untracked", result |-> None, error |-> None, completed |-> FALSE]

OpenAIRequest(callback) == [callback |-> callback, result |-> None, error |-> None, completed |-> FALSE]

Callers == 1..MaxCallers
Threads == 1..MaxThreads

\* OpenAIQueue.__init__ with enabled = True: an empty queue, no request
\* tracked, and start_worker has started the first worker thread.
QueueInit ==
  /\ q_requests = [c \in Callers |-> NoRequest]
  /\ q_queue = << >>
  /\ q_running = TRUE
  /\ q_worker_thread = 1
  /\ q_threads = [t \in Threads |-> [pc |-> IF t = 1 THEN "loop" ELSE "unstarted", request |-> 0]]
  /\ q_callers = [c \in Callers |-> [pc |-> "idle", timeout |-> None, elapsed |-> 0]]
  /\ q_put = << >>
  /\ q_started = << >>

\* The components that a specification does not run stay as constructed.
IdleInit(running) ==
  /\ IF "update" \in running THEN TRUE ELSE UpdateInit
  /\ IF "embed" \in running THEN TRUE ELSE EmbedInit(DefaultBatchThreshold)
  /\ IF "store" \in running THEN TRUE ELSE StoreInit({}, TRUE)
  /\ IF "chunk" \in running THEN TRUE ELSE ChunkInit(<< >>)
  /\ IF "query" \in running THEN TRUE ELSE QueryInit(<< >>, << >>)
  /\ IF "meta" \in running THEN TRUE ELSE MetaInit
  /\ IF "table" \in running THEN TRUE ELSE TableInit([columns |-> {}, rows |-> << >>])
  /\ IF "session" \in running THEN TRUE ELSE SessionInit(FALSE, ClearedSession, 0, DefaultTimeouts)
  /\ IF "chat" \in running THEN TRUE ELSE ChatInit
  /\ IF "batch" \in running THEN TRUE ELSE BatchInit(NoJob)
  /\ IF "split" \in running THEN TRUE ELSE SplitInit(<< >>)
  /\ IF "queue" \in running THEN TRUE ELSE QueueInit

Init == IdleInit({})

\* ------------------------------------------------------------- actions
\* process_upload, lines 106-109: the call begins at time t, which names its
\* version; the clock is read here and the call's later steps run within the
\* same tick.
Begin(p, f, t, limit) ==
  /\ Idle(p)
  /\ started < limit
  /\ now' = t
  /\ started' = started + 1
  /\ pc' = [pc EXCEPT ![p] = "validate"]
  /\ new_file' = [new_file EXCEPT ![p] = f]
  /\ version_id' = [version_id EXCEPT ![p] = VersionId(t)]
  /\ has_existing_data' = [has_existing_data EXCEPT ![p] = FALSE]
  /\ changeset' = [changeset EXCEPT ![p] = ChangeSet({}, {}, {})]
  /\ backup_id' = [backup_id EXCEPT ![p] = None]
  /\ chunks' = [chunks EXCEPT ![p] = {}]
  /\ result' = [result EXCEPT ![p] = None]
  /\ pre' = [pre EXCEPT ![p] = Snapshot]
  /\ seen' = None
  /\ UNCHANGED <<outside_update, collection, current_db, backups, metadata>>

\* The except clause of process_upload (lines 247-255): roll back when step 4
\* has bound backup_id, return a failure result without version_id.
Except(p, bid, e) ==
  /\ current_db' = IF bid = None THEN current_db ELSE rollback(The(bid), current_db, backups)
  /\ result' = [result EXCEPT ![p] =
                  Some(UpdateResult(FALSE, "Update failed", EmptyVersion, None, None, e))]
  /\ pc' = [pc EXCEPT ![p] = "done"]

\* Steps 1-2 (lines 112-124): save, load_excel, validate_data.
Validate(p) ==
  /\ pc[p] = "validate"
  /\ IF new_file[p].kind = "corrupt"
     THEN /\ Except(p, backup_id[p], "load_excel")
     ELSE IF ~validate_data(new_file[p])
     THEN /\ result' = [result EXCEPT ![p] =
                          Some(UpdateResult(FALSE, "Validation failed", EmptyVersion, None, None,
                                            "Validation failed"))]
          /\ pc' = [pc EXCEPT ![p] = "done"]
          /\ UNCHANGED current_db
     ELSE /\ pc' = [pc EXCEPT ![p] = "diff"]
          /\ UNCHANGED <<current_db, result>>
  /\ seen' = None
  /\ UNCHANGED <<outside_update, now, collection, backups, metadata, locals, pre, started>>

\* Steps 3-3b (lines 126-134): has_existing_data from the collection's count,
\* changeset from _detect_changes against the current snapshot.
Diff(p) ==
  /\ pc[p] = "diff"
  /\ has_existing_data' = [has_existing_data EXCEPT ![p] = Cardinality(collection) > 0]
  /\ changeset' = [changeset EXCEPT ![p] = detect_changes(current_db, new_file[p])]
  /\ pc' = [pc EXCEPT ![p] = "decide"]
  /\ seen' = None
  /\ UNCHANGED <<outside_update, now, collection, current_db, backups, metadata, new_file, version_id,
                 backup_id, chunks, result, pre, started>>

\* Decide with the no-op return taken for every empty change set.
Decide_noop_on_empty_index(p) ==
  /\ pc[p] = "decide"
  /\ IF is_empty(changeset[p])
     THEN /\ result' = [result EXCEPT ![p] =
               Some(UpdateResult(TRUE, "No changes detected", version_id[p], None, None, ""))]
          /\ pc' = [pc EXCEPT ![p] = "done"]
          /\ UNCHANGED changeset
     ELSE /\ pc' = [pc EXCEPT ![p] = "backup"]
          /\ UNCHANGED <<changeset, result>>
  /\ seen' = None
  /\ UNCHANGED <<outside_update, now, collection, current_db, backups, metadata, new_file, version_id,
                 has_existing_data, backup_id, chunks, pre, started>>

\* Lines 136-153: the no-op return, or the first load of an empty index.
Decide(p) ==
  /\ pc[p] = "decide"
  /\ IF is_empty(changeset[p]) /\ has_existing_data[p]
     THEN /\ result' = [result EXCEPT ![p] =
               Some(UpdateResult(TRUE, "No changes detected", version_id[p], None, None, ""))]
          /\ pc' = [pc EXCEPT ![p] = "done"]
          /\ UNCHANGED changeset
     ELSE /\ changeset' = [changeset EXCEPT ![p] =
               IF is_empty(changeset[p])
               THEN ChangeSet(extract_events(new_file[p]), {}, {})
               ELSE changeset[p]]
          /\ pc' = [pc EXCEPT ![p] = "backup"]
          /\ UNCHANGED result
  /\ seen' = None
  /\ UNCHANGED <<outside_update, now, collection, current_db, backups, metadata, new_file, version_id,
                 has_existing_data, backup_id, chunks, pre, started>>

\* Step 4 (lines 155-157): _create_backup; shutil.copy can raise.
Backup(p) ==
  /\ pc[p] = "backup"
  /\ \/ /\ backup_id' = [backup_id EXCEPT ![p] = Some(create_backup_id(current_db, now))]
        /\ backups' = create_backup_files(current_db, now, backups)
        /\ pc' = [pc EXCEPT ![p] = "rebuild"]
        /\ UNCHANGED <<current_db, result>>
     \/ /\ current_db # None
        /\ Except(p, backup_id[p], "create_backup")
        /\ UNCHANGED <<backup_id, backups>>
  /\ seen' = None
  /\ UNCHANGED <<outside_update, now, collection, metadata, new_file, version_id, has_existing_data,
                 changeset, chunks, pre, started>>

\* Rebuild with the pending check made only after the collection was reset.
Rebuild_pending_after_reset(p) ==
  /\ pc[p] = "rebuild"
  /\ \/ /\ chunks' = [chunks EXCEPT ![p] = chunk_events(extract_events(new_file[p]))]
        /\ pc' = [pc EXCEPT ![p] = "reset"]
        /\ UNCHANGED <<collection, current_db, result>>
     \/ /\ result' = [result EXCEPT ![p] =
             Some(UpdateResult(FALSE, "Batch processing started", version_id[p], None, None,
                               "Use check_batch_status"))]
        /\ pc' = [pc EXCEPT ![p] = "done"]
        /\ collection' = create_collection_reset(collection)
        /\ UNCHANGED <<current_db, chunks>>
  /\ seen' = None
  /\ UNCHANGED <<outside_update, now, backups, metadata, new_file, version_id,
                 has_existing_data, changeset, backup_id, pre, started>>

\* Steps 5-6 (lines 159-212): extract, chunk, embed_batch.  embed_batch
\* resolves every vector, reports a pending bulk job, or raises.
Rebuild(p) ==
  /\ pc[p] = "rebuild"
  /\ \/ /\ chunks' = [chunks EXCEPT ![p] = chunk_events(extract_events(new_file[p]))]
        /\ pc' = [pc EXCEPT ![p] = "reset"]
        /\ UNCHANGED <<current_db, result>>
     \/ /\ result' = [result EXCEPT ![p] =
             Some(UpdateResult(FALSE, "Batch processing started", version_id[p], None, None,
                               "Use check_batch_status"))]
        /\ pc' = [pc EXCEPT ![p] = "done"]
        /\ UNCHANGED <<current_db, chunks>>
     \/ /\ Except(p, backup_id[p], "embed_batch")
        /\ UNCHANGED chunks
  /\ seen' = None
  /\ UNCHANGED <<outside_update, now, collection, backups, metadata, new_file, version_id,
                 has_existing_data, changeset, backup_id, pre, started>>

\* Step 7, first half (line 216): create_collection(reset=True).  The delete
\* is done when get_or_create_collection raises.
Reset(p) ==
  /\ pc[p] = "reset"
  /\ collection' = create_collection_reset(collection)
  /\ \/ /\ pc' = [pc EXCEPT ![p] = "add"]
        /\ UNCHANGED <<current_db, result>>
     \/ Except(p, backup_id[p], "create_collection")
  /\ seen' = None
  /\ UNCHANGED <<outside_update, now, backups, metadata, locals, pre, started>>

\* Add that hands over to the promotion, leaving the version unrecorded.
Add_then_promote(p) ==
  /\ pc[p] = "add"
  /\ \/ /\ collection' = add_documents(collection, chunks[p])
        /\ pc' = [pc EXCEPT ![p] = "promote"]
        /\ UNCHANGED <<current_db, result>>
     \/ /\ Except(p, backup_id[p], "add_documents")
        /\ UNCHANGED collection
  /\ seen' = None
  /\ UNCHANGED <<outside_update, now, backups, metadata, locals, pre, started>>

\* Step 7, second half (line 217): add_documents, or collection.add raises.
Add(p) ==
  /\ pc[p] = "add"
  /\ \/ /\ collection' = add_documents(collection, chunks[p])
        /\ pc' = [pc EXCEPT ![p] = "record"]
        /\ UNCHANGED <<current_db, result>>
     \/ /\ Except(p, backup_id[p], "add_documents")
        /\ UNCHANGED collection
  /\ seen' = None
  /\ UNCHANGED <<outside_update, now, backups, metadata, locals, pre, started>>

\* Step 8 (lines 219-229): record_update.
Record(p) ==
  /\ pc[p] = "record"
  /\ metadata' = record_update(metadata, version_id[p],
                               Cardinality(extract_events(new_file[p])),
                               Cardinality(chunks[p]), summary(changeset[p]), "completed")
  /\ pc' = [pc EXCEPT ![p] = "promote"]
  /\ seen' = None
  /\ UNCHANGED <<outside_update, now, collection, current_db, backups, locals, result, pre, started>>

\* Step 9 (line 232): copy the upload over the current snapshot, or the copy raises.
Promote(p) ==
  /\ pc[p] = "promote"
  /\ \/ /\ current_db' = Some(new_file[p])
        /\ pc' = [pc EXCEPT ![p] = "cleanup"]
        /\ UNCHANGED result
     \/ Except(p, backup_id[p], "copy")
  /\ seen' = None
  /\ UNCHANGED <<outside_update, now, collection, backups, metadata, locals, pre, started>>

\* Step 10 and the return (lines 234-245).
Cleanup(p) ==
  /\ pc[p] = "cleanup"
  /\ backups' = cleanup_old_backups(backups, now, RetentionDays)
  /\ result' = [result EXCEPT ![p] =
       Some(UpdateResult(TRUE, "Update successful", version_id[p], backup_id[p],
                         Some(summary(changeset[p])), ""))]
  /\ pc' = [pc EXCEPT ![p] = "done"]
  /\ seen' = None
  /\ UNCHANGED <<outside_update, now, collection, current_db, metadata, locals, pre, started>>

\* VectorStore.semantic_search by a reader: what the collection holds now,
\* and which update calls were in progress.
Query ==
  /\ seen = None
  /\ seen' = Some([content |-> collection, during |-> {p \in Procs : ~Idle(p)}])
  /\ UNCHANGED <<outside_update, now, collection, current_db, backups, metadata, pc, locals, result,
                 pre, started>>

Step(p) ==
  \/ Validate(p) \/ Diff(p) \/ Decide(p) \/ Backup(p) \/ Rebuild(p) \/ Reset(p)
  \/ Add(p) \/ Record(p) \/ Promote(p) \/ Cleanup(p)

\* Uploads arrive one after the other (a single request thread), each at a
\* later time than the one before.
SerialBegin == \E f \in Files : Begin(1, f, now + 1, MaxUploads)

Next == SerialBegin \/ Step(1)

Spec == Init /\ [][Next]_vars

\* One uploading thread, and a reader thread that searches at any moment.
NextRead == SerialBegin \/ Step(1) \/ Query

SpecRead == Init /\ [][NextRead]_vars

\* Two request threads share the service (Flask serves requests threaded);
\* two calls can begin within the same second.
ConcBegin == \E p \in Procs, f \in Files, t \in {now, now + 1} : Begin(p, f, t, MaxConcUploads)

ConcStep == \E p \in Procs : Step(p)

NextConc == ConcBegin \/ ConcStep

SpecConc == Init /\ [][NextConc]_vars

\* The service starts on what an earlier run left on disk: snapshot A was
\* loaded at time 1, and an upload at time 2 wrote its backup of A and then
\* failed, in embed_batch (the index still holds A) or in the swap (the index
\* is empty); _rollback put A back.
LoadedFrames == {DataFrame(TRUE, r) : r \in RowMaps \ {<< >>}}

InitLater ==
  \E A \in LoadedFrames : \E coll \in {{}, chunk_events(extract_events(A))} :
    /\ now = 2
    /\ collection = coll
    /\ current_db = Some(A)
    /\ backups = create_backup_files(Some(A), 2, {})
    /\ metadata = record_update(default_metadata, VersionId(1),
                                Cardinality(extract_events(A)),
                                Cardinality(chunk_events(extract_events(A))),
                                summary(ChangeSet(extract_events(A), {}, {})), "completed")
    /\ pc = [p \in Procs |-> "idle"]
    /\ new_file = [p \in Procs |-> CorruptFile]
    /\ version_id = [p \in Procs |-> EmptyVersion]
    /\ has_existing_data = [p \in Procs |-> FALSE]
    /\ changeset = [p \in Procs |-> ChangeSet({}, {}, {})]
    /\ backup_id = [p \in Procs |-> None]
    /\ chunks = [p \in Procs |-> {}]
    /\ result = [p \in Procs |-> None]
    /\ pre = [p \in Procs |-> InitialSnapshot]
    /\ seen = None
    /\ started = 0
    /\ IdleInit({"update"})

\* Later uploads come the next day or after the retention window has passed.
LaterBegin ==
  \E f \in Files, dt \in {1, RetentionDays + 1} : Begin(1, f, now + dt, MaxLaterUploads)

NextLater == LaterBegin \/ Step(1)

SpecLater == InitLater /\ [][NextLater]_vars

\* ---------------------------------------------------- embedding service
TextSet == {"a", "b"}

TextLists == UNION {[1..n -> TextSet] : n \in 0..MaxTexts}

\* _text_hash: the MD5 digest, one per text.
text_hash(t) == <<"md5", t>>

HashesOf(texts) == {text_hash(texts[i]) : i \in DOMAIN texts}

\* embed_batch lines 171-184, with every text taken as uncached.
uncached_texts_ignoring_cache(texts, use_cache, c) == texts

\* embed_batch lines 171-184: the texts that go on to the API, in order.
uncached_texts(texts, use_cache, c) ==
  LET Miss(t) == ~(use_cache /\ text_hash(t) \in c)
  IN SelectSeq(texts, Miss)

\* embed_batch with the cached vectors left out of the results.
cache_hits_left_out(texts, use_cache, c) == {}

\* embed_batch lines 176-181: the results filled from the cache.
cache_hits(texts, use_cache, c) ==
  {h \in HashesOf(texts) : use_cache /\ h \in c}

Vectors(keys) == [kind |-> "vectors", keys |-> keys]
Pending == [kind |-> "pending", keys |-> {}]
Raised == [kind |-> "raised", keys |-> {}]

\* What one embed_batch call did: the texts handed to the API, the lane, the
\* requests sent, the cache afterwards and what the caller got.
Outcome(dispatched, lane, submit, api, calls, c, res) ==
  [dispatched |-> dispatched, lane |-> lane, submit |-> submit, api |-> api,
   calls |-> calls, cache |-> c, result |-> res]

\* _embed_direct: one request when the batch has at most 250K tokens (big is
\* FALSE), else one per DirectChunkSize texts; api_ok tells whether the API
\* answers or the first request raises.
embed_direct(texts, results, use_cache, c, lane, submit, sent, api_ok, big) ==
  LET requests == IF big
                  THEN (Len(texts) + DirectChunkSize - 1) \div DirectChunkSize
                  ELSE 1
  IN IF api_ok
     THEN Outcome(texts, lane, submit, "ok", sent + requests,
                  IF use_cache THEN c \cup HashesOf(texts) ELSE c,
                  Vectors(results \cup HashesOf(texts)))
     ELSE Outcome(texts, lane, submit, "raised", sent + 1, c, Raised)

\* _embed_batch_api that lets a failed submission reach the caller.
embed_batch_api_no_fallback(texts, results, use_cache, c, submit, api_ok, big) ==
  IF submit = "ok"
  THEN Outcome(texts, "batch", submit, "none", 2, c, Pending)
  ELSE Outcome(texts, "batch", submit, "none",
               CASE submit = "write_fails" -> 0
                 [] submit = "upload_fails" -> 1
                 [] submit = "create_fails" -> 2,
               c, Raised)

\* _embed_batch_api: write the request file, upload it (files.create),
\* create the job (batches.create) and return pending; on any exception
\* fall back to _embed_direct.
embed_batch_api(texts, results, use_cache, c, submit, api_ok, big) ==
  IF submit = "ok"
  THEN Outcome(texts, "batch", submit, "none", 2, c, Pending)
  ELSE embed_direct(texts, results, use_cache, c, "fallback", submit,
                    CASE submit = "write_fails" -> 0
                      [] submit = "upload_fails" -> 1
                      [] submit = "create_fails" -> 2,
                    api_ok, big)

\* EmbeddingService.embed_batch
embed_batch(texts, use_cache, c, threshold, submit, api_ok, big) ==
  LET results == cache_hits(texts, use_cache, c)
      uncached == uncached_texts(texts, use_cache, c)
  IN IF uncached = << >>
     THEN Outcome(<< >>, "cache", "none", "none", 0, c, Vectors(results))
     ELSE IF Len(uncached) < threshold
          THEN embed_direct(uncached, results, use_cache, c, "direct", "none", 0, api_ok, big)
          ELSE embed_batch_api(uncached, results, use_cache, c, submit, api_ok, big)

Submits == {"ok", "write_fails", "upload_fails", "create_fails"}

\* process_upload, the loop over the chunks: the vector found under the
\* hash of each chunk text, in chunk order (a vector is named by the hash it
\* is stored under); a hash the result lacks raises KeyError.
chunk_embeddings(texts, res) ==
  IF \A i \in DOMAIN texts : text_hash(texts[i]) \in res.keys
  THEN [kind |-> "list", embeddings |-> [i \in DOMAIN texts |-> text_hash(texts[i])]]
  ELSE [kind |-> "KeyError", embeddings |-> << >>]

\* add_documents, the length check on what it is handed.
add_documents_accepts(texts, embeddings) == Len(texts) = Len(embeddings)

\* The call before this one had the same texts, used the cache as this one
\* does, and returned.
Repeats(texts, use_cache) ==
  /\ embed_call # None
  /\ The(embed_call).texts = texts
  /\ The(embed_call).use_cache /\ use_cache
  /\ The(embed_call).out.result.kind # "raised"

\* One embed_batch call, from entry to return or raise.
EmbedBatch ==
  /\ \E texts \in TextLists, use_cache \in BOOLEAN, submit \in Submits,
        api_ok \in BOOLEAN, big \in BOOLEAN :
       LET o == embed_batch(texts, use_cache, cache, batch_threshold, submit, api_ok, big)
       IN /\ cache' = o.cache
          /\ embed_call' = Some([texts |-> texts, use_cache |-> use_cache,
                                 cache_before |-> cache,
                                 repeats |-> Repeats(texts, use_cache), out |-> o])
  /\ UNCHANGED <<batch_threshold, outside_embed>>

\* The service with any configured threshold that the lists can reach.
InitEmbed ==
  /\ IdleInit({"embed"})
  /\ \E th \in 1..MaxTexts : EmbedInit(th)

NextEmbed == EmbedBatch

SpecEmbed == InitEmbed /\ [][NextEmbed]_vars

\* ------------------------------------------------ vector store, retrieval
Min(a, b) == IF a < b THEN a ELSE b

DocIds == 1..MaxDocs

HazardNames == {"measles", "mpox"}
LocationNames == {"canada", "kenya"}
SectionNames == {"hazards", "updates"}

\* A date string 'YYYY-MM-DD' of day d.
DateStr(d) == <<"date", d>>

\* datetime.strptime(s, '%Y-%m-%d').timestamp(), in days.
date_timestamp(s) == s[2]

\* DataProcessor._generate_metadata for the chunk of event i; the events
\* differ in hazard, location, section and date.
generate_metadata(i) ==
  [event_id |-> i,
   date_unix |-> date_timestamp(DateStr(i)),
   hazard_normalized |-> IF i % 2 = 1 THEN "measles" ELSE "mpox",
   location |-> IF ((i - 1) \div 2) % 2 = 0 THEN "canada" ELSE "kenya",
   section |-> IF i % 4 \in {0, 1} THEN "hazards" ELSE "updates"]

\* A filters dict; a key that is absent has the value None.
Filters(h, l, s, df, dt) ==
  [hazard_normalized |-> h, location |-> l, section |-> s, date_from |-> df, date_to |-> dt]

Opt(S) == {None} \cup {Some(v) : v \in S}

AllFilters ==
  {Filters(h, l, s, df, dt) :
     h \in Opt(HazardNames), l \in Opt(LocationNames), s \in Opt(SectionNames),
     df \in Opt({DateStr(d) : d \in DocIds}), dt \in Opt({DateStr(d) : d \in DocIds})}

NoFilters == Filters(None, None, None, None, None)

\* Filters as extract_filters builds them from a message: a year or "recent",
\* and a hazard name.
QueryFilters ==
  {NoFilters,
   Filters(Some("mpox"), None, None, None, None),
   Filters(None, None, None, Some(DateStr(2)), None),
   Filters(Some("measles"), None, None, Some(DateStr(1)), Some(DateStr(2)))}

Cond(key, op, value) == [key |-> key, op |-> op, value |-> value]

\* VectorStore._build_where_clause: the conditions that ChromaDB conjoins.
\* Exact matches are built for location and section only.
build_where_clause(filters) ==
  {Cond(k, "$eq", The(filters[k])) :
     k \in {k \in {"location", "section"} : filters[k] # None}}
  \cup (IF filters.date_from # None
        THEN {Cond("date_unix", "$gte", date_timestamp(The(filters.date_from)))}
        ELSE {})
  \cup (IF filters.date_to # None
        THEN {Cond("date_unix", "$lte", date_timestamp(The(filters.date_to)))}
        ELSE {})

\* ChromaDB's evaluation of a where clause on a document's metadata.
where_matches(meta, where) ==
  \A c \in where :
    CASE c.op = "$eq" -> meta[c.key] = c.value
      [] c.op = "$gte" -> meta[c.key] >= c.value
      [] c.op = "$lte" -> meta[c.key] <= c.value

\* The orders in which a query can rank the documents.
Orders == {o \in [DocIds -> DocIds] : \A i, j \in DocIds : o[i] = o[j] => i = j}

IdentityOrder == [i \in DocIds |-> i]
ReverseOrder == [i \in DocIds |-> MaxDocs + 1 - i]
SomeOrders == {IdentityOrder, ReverseOrder}

Take(seq, n) == SubSeq(seq, 1, Min(n, Len(seq)))

\* collection.query: the n_results best documents, by the order this query
\* gives them, among those the where clause lets through.
collection_query(docs, order, n_results, where) ==
  LET Hit(i) == i \in docs /\ where_matches(generate_metadata(i), where)
  IN Take(SelectSeq(order, Hit), n_results)

\* VectorStore.semantic_search: ids in the order ChromaDB returned them.
semantic_search(docs, order, top_k, filters) ==
  collection_query(docs, order, top_k, build_where_clause(filters))

\* VectorStore.keyword_search
keyword_search(docs, order, top_k, filters) ==
  collection_query(docs, order, top_k, build_where_clause(filters))

Range(seq) == {seq[i] : i \in DOMAIN seq}

RankIn(seq, id) == IF id \in Range(seq) THEN CHOOSE i \in DOMAIN seq : seq[i] = id ELSE 0

\* Fractions <<numerator, denominator>> with positive denominators.
FracSum(a, b) == <<a[1] * b[2] + b[1] * a[2], a[2] * b[2]>>
FracProd(a, b) == <<a[1] * b[1], a[2] * b[2]>>
FracGreater(a, b) == a[1] * b[2] > b[1] * a[2]
FracEqual(a, b) == a[1] * b[2] = b[1] * a[2]

\* The reciprocal with ranks counted from 0.
rrf_score_from_zero(rank) == IF rank = 0 THEN <<0, 1>> ELSE <<1, RrfK + rank - 1>>

\* 1.0 / (k + rank), and 0.0 for a document the list does not hold.
rrf_score(rank) == IF rank = 0 THEN <<0, 1>> ELSE <<1, RrfK + rank>>

\* list.sort(key=score, reverse=True): descending and stable.
SortByScoreDesc(seq, score) ==
  LET Before(i) == Cardinality({j \in DOMAIN seq :
                      \/ FracGreater(score[seq[j]], score[seq[i]])
                      \/ FracEqual(score[seq[j]], score[seq[i]]) /\ j < i})
  IN [p \in DOMAIN seq |-> seq[CHOOSE i \in DOMAIN seq : Before(i) = p - 1]]

\* VectorStore._reciprocal_rank_fusion, lines 277-311: the combined score of
\* every document of either list, kept multiplied by alpha's denominator,
\* which leaves the order of the scores as it is; then lines 313-316: the ids
\* by combined score.
combined_scores(semantic_results, keyword_results, alpha) ==
  [id \in Range(semantic_results) \cup Range(keyword_results) |->
     FracSum(FracProd(<<alpha[1], 1>>, rrf_score(RankIn(semantic_results, id))),
             FracProd(<<alpha[2] - alpha[1], 1>>,
                      rrf_score(RankIn(keyword_results, id))))]

reciprocal_rank_fusion(semantic_results, keyword_results, alpha) ==
  LET KeywordOnly(id) == id \notin Range(semantic_results)
      ids == semantic_results \o SelectSeq(keyword_results, KeywordOnly)
  IN SortByScoreDesc(ids, combined_scores(semantic_results, keyword_results, alpha))

\* hybrid_search that returns the fused list whole.
hybrid_search_uncut(docs, sem_order, kw_order, top_k, alpha, filters) ==
  reciprocal_rank_fusion(semantic_search(docs, sem_order, top_k, filters),
                         keyword_search(docs, kw_order, top_k, filters), alpha)

\* VectorStore.hybrid_search
hybrid_search(docs, sem_order, kw_order, top_k, alpha, filters) ==
  Take(reciprocal_rank_fusion(semantic_search(docs, sem_order, top_k, filters),
                              keyword_search(docs, kw_order, top_k, filters), alpha),
       top_k)

\* alpha as a fraction: 0.0, the default 0.7, 1.0.
Alphas == {<<0, 1>>, <<7, 10>>, <<1, 1>>}

\* rerank that cuts the candidates to top_k as they come.
rerank_unsorted(results, rr_order, top_k) == Take(results, top_k)

\* RetrievalService.rerank: the top_k candidates by cross-encoder score.
rerank(results, rr_order, top_k) ==
  LET Candidate(i) == i \in Range(results)
  IN Take(SelectSeq(rr_order, Candidate), top_k)

\* retrieve, lines 79-94: the candidates of the retrieval stage.
retrieve_candidates(docs, sem_order, kw_order, filters, use_hybrid) ==
  IF use_hybrid
  THEN hybrid_search(docs, sem_order, kw_order, RetrieveCandidates, <<7, 10>>, filters)
  ELSE semantic_search(docs, sem_order, RetrieveCandidates, filters)

\* retrieve, line 101: whether the candidates go through rerank.
reranks(candidates, use_reranking, enabled) ==
  use_reranking /\ enabled /\ Len(candidates) > 0

\* retrieve that re-ranks whenever it is asked to.
retrieve_ignoring_load_failure(docs, sem_order, kw_order, rr_order, filters, top_k, use_hybrid, use_reranking, enabled) ==
  LET candidates == retrieve_candidates(docs, sem_order, kw_order, filters, use_hybrid)
  IN IF use_reranking /\ Len(candidates) > 0
     THEN rerank(candidates, rr_order, top_k)
     ELSE Take(candidates, top_k)

\* RetrievalService.retrieve after the query has been embedded.
retrieve(docs, sem_order, kw_order, rr_order, filters, top_k, use_hybrid, use_reranking, enabled) ==
  LET candidates == retrieve_candidates(docs, sem_order, kw_order, filters, use_hybrid)
  IN IF reranks(candidates, use_reranking, enabled)
     THEN rerank(candidates, rr_order, top_k)
     ELSE Take(candidates, top_k)

\* Whose scores the results carry: rerank overwrites result.score, the
\* other branch leaves the score of the search.
scored_by(candidates, use_reranking, enabled) ==
  IF reranks(candidates, use_reranking, enabled) THEN "reranker" ELSE "retrieval"

\* retrieve, lines 102 and 107: the message about the ranking stage.
ranking_message(candidates, use_reranking, enabled) ==
  IF reranks(candidates, use_reranking, enabled)
  THEN "Re-ranking candidates" ELSE "No re-ranking, returning top candidates"

Results(ids) == [kind |-> "results", ids |-> ids]
SearchRaised == [kind |-> "raised", ids |-> << >>]

\* What a search gets from the collection: ids through a usable handle; a
\* handle of a deleted collection raises or yields nothing.
ThroughHandle(ids, dangling) ==
  IF handle = "stale"
  THEN (IF dangling = "raises" THEN SearchRaised ELSE Results(<< >>))
  ELSE Results(ids)

\* The outcomes to choose from: only a stale handle leaves a choice.
Danglings == IF handle = "stale" THEN {"raises", "nothing"} ELSE {"raises"}

\* `if not self.collection: self.create_collection()`
LazyCreate == handle' = IF handle = "none" THEN "live" ELSE handle

\* A search leaves its answer on record and the behaviour ends there; the
\* store changes in behaviours that have no answer on record yet.

\* create_collection(reset=True), lines 78-82: delete_collection.  The
\* handle, if there is one, now names a collection that is gone.
DeleteCollection ==
  /\ answer = None
  /\ chroma' = {}
  /\ handle' = IF handle = "none" THEN "none" ELSE "stale"
  /\ UNCHANGED <<answer, reranking_enabled, log, outside_store>>

\* create_collection, lines 84-87: get_or_create_collection returns and the
\* handle is set.  Between the two steps, or when this one raises, the
\* handle stays as the delete left it.
GetOrCreateCollection ==
  /\ answer = None
  /\ handle' = "live"
  /\ UNCHANGED <<chroma, answer, reranking_enabled, log, outside_store>>

\* add_documents of the chunks of events 1..n; collection.add through a
\* handle of a deleted collection raises.
AddDocuments ==
  /\ answer = None
  /\ \E n \in DocIds :
       chroma' = IF handle = "stale" THEN chroma ELSE chroma \cup (1..n)
  /\ LazyCreate
  /\ UNCHANGED <<answer, reranking_enabled, log, outside_store>>

\* VectorStore.semantic_search with any filters dict.
SemanticSearch ==
  /\ answer = None
  /\ \E order \in Orders, top_k \in {1, MaxDocs}, filters \in AllFilters,
        dangling \in Danglings :
       answer' = Some([op |-> "semantic_search", filters |-> filters, top_k |-> top_k,
                       alpha |-> <<1, 1>>, sem_order |-> order, kw_order |-> order,
                       external_ok |-> TRUE,
                       out |-> ThroughHandle(semantic_search(chroma, order, top_k, filters),
                                             dangling)])
  /\ LazyCreate
  /\ UNCHANGED <<chroma, reranking_enabled, log, outside_store>>

\* VectorStore.hybrid_search
HybridSearch ==
  /\ answer = None
  /\ \E sem_order \in Orders, kw_order \in Orders, top_k \in DocIds, alpha \in Alphas,
        filters \in QueryFilters, dangling \in Danglings :
       answer' = Some([op |-> "hybrid_search", filters |-> filters, top_k |-> top_k,
                       alpha |-> alpha, sem_order |-> sem_order, kw_order |-> kw_order,
                       external_ok |-> TRUE,
                       out |-> ThroughHandle(hybrid_search(chroma, sem_order, kw_order,
                                                           top_k, alpha, filters),
                                             dangling)])
  /\ LazyCreate
  /\ UNCHANGED <<chroma, reranking_enabled, log, outside_store>>

\* RetrievalService.retrieve: embed_single of the query (embed_ok tells
\* whether the API answers), the search, the re-ranking (predict_ok tells
\* whether reranker.predict returns or raises; nothing catches it).
Retrieve ==
  /\ answer = None
  /\ \E sem_order \in SomeOrders, kw_order \in SomeOrders, rr_order \in SomeOrders,
        filters \in QueryFilters, top_k \in DocIds, use_hybrid \in BOOLEAN,
        use_reranking \in BOOLEAN, embed_ok \in BOOLEAN, predict_ok \in BOOLEAN,
        dangling \in Danglings :
       LET candidates == retrieve_candidates(chroma, sem_order, kw_order, filters, use_hybrid)
           searched == embed_ok /\ handle # "stale"
           predict_raises == /\ searched /\ ~predict_ok
                             /\ reranks(candidates, use_reranking, reranking_enabled)
       IN /\ answer' = Some([op |-> "retrieve", filters |-> filters, top_k |-> top_k,
                             alpha |-> <<7, 10>>, sem_order |-> sem_order,
                             kw_order |-> kw_order,
                             external_ok |-> embed_ok /\ ~predict_raises,
                             use_hybrid |-> use_hybrid, use_reranking |-> use_reranking,
                             rr_order |-> rr_order, predict_raised |-> predict_raises,
                             scored_by |-> scored_by(candidates, use_reranking,
                                                     reranking_enabled),
                             out |-> IF embed_ok /\ ~predict_raises
                                     THEN ThroughHandle(retrieve(chroma, sem_order, kw_order,
                                                                 rr_order, filters, top_k,
                                                                 use_hybrid, use_reranking,
                                                                 reranking_enabled),
                                                        dangling)
                                     ELSE SearchRaised])
          /\ log' = IF searched
                    THEN log \cup {ranking_message(candidates, use_reranking,
                                                   reranking_enabled)}
                    ELSE log
          /\ handle' = IF embed_ok /\ handle = "none" THEN "live" ELSE handle
  /\ UNCHANGED <<chroma, reranking_enabled, outside_store>>

\* RAGOrchestrator.chat with include_context: parse_query, retrieve with
\* use_hybrid=False and re-ranking, generate_response (llm_ok tells whether
\* the completion call answers); any exception becomes the result's error.
Chat ==
  /\ answer = None
  /\ \E sem_order \in SomeOrders, rr_order \in SomeOrders, filters \in QueryFilters,
        embed_ok \in BOOLEAN, predict_ok \in BOOLEAN, llm_ok \in BOOLEAN,
        dangling \in Danglings :
       LET candidates == retrieve_candidates(chroma, sem_order, sem_order, filters, FALSE)
           searched == embed_ok /\ handle # "stale"
           predict_raises == /\ searched /\ ~predict_ok
                             /\ reranks(candidates, TRUE, reranking_enabled)
           retrieved == IF embed_ok /\ ~predict_raises
                        THEN ThroughHandle(retrieve(chroma, sem_order, sem_order, rr_order,
                                                    filters, ChatTopK, FALSE, TRUE,
                                                    reranking_enabled),
                                           dangling)
                        ELSE SearchRaised
       IN /\ answer' = Some([op |-> "chat", filters |-> filters, top_k |-> ChatTopK,
                             alpha |-> <<7, 10>>, sem_order |-> sem_order,
                             kw_order |-> sem_order,
                             external_ok |-> embed_ok /\ ~predict_raises /\ llm_ok,
                             out |-> IF retrieved.kind = "results" /\ llm_ok
                                     THEN retrieved ELSE SearchRaised])
          /\ log' = IF searched
                    THEN log \cup {ranking_message(candidates, TRUE, reranking_enabled)}
                    ELSE log
          /\ handle' = IF embed_ok /\ handle = "none" THEN "live" ELSE handle
  /\ UNCHANGED <<chroma, reranking_enabled, outside_store>>

\* The process starts over a collection holding the chunks of events 1..n.
InitStore ==
  /\ IdleInit({"store"})
  /\ \E n \in 0..MaxDocs, loaded \in BOOLEAN : StoreInit(1..n, loaded)

NextStore ==
  \/ DeleteCollection \/ GetOrCreateCollection \/ AddDocuments
  \/ SemanticSearch \/ HybridSearch \/ Retrieve \/ Chat

SpecStore == InitStore /\ [][NextStore]_vars

\* ------------------------------------------------------------- chunking
\* The window that swallows the rest of the event.
window_end_whole(start, n) == n

\* chunk_events line 397: end = min(start + chunk_size, len(tokens))
window_end(start, n) == Min(start + ChunkSize, n)

\* The next window starts where the last one ended.
next_start_no_overlap(end) == end

\* chunk_events line 421: start = end - chunk_overlap
next_start(end) == end - ChunkOverlap

TokenChunk(index, span, total) ==
  [chunk_index |-> index, tokens |-> span, token_count |-> Len(span),
   total_chunks |-> total]

\* chunk_events lines 392-421: the while loop from start, 0-based as in the
\* code; total_chunks is -1 until the loop is over.
RECURSIVE split_windows(_, _, _)
split_windows(toks, start, index) ==
  LET end == window_end(start, Len(toks))
      chunk == TokenChunk(index, SubSeq(toks, start + 1, end), -1)
  IN IF end >= Len(toks)
     THEN <<chunk>>
     ELSE <<chunk>> \o split_windows(toks, next_start(end), index + 1)

\* chunk_events lines 375-425 for one event: one chunk when the text fits,
\* else the windows, each then given the total count.
chunk_event(toks) ==
  IF Len(toks) <= ChunkSize
  THEN <<TokenChunk(0, toks, 1)>>
  ELSE LET windows == split_windows(toks, 0, 0)
       IN [i \in DOMAIN windows |->
             [windows[i] EXCEPT !.total_chunks = Len(windows)]]

\* An event text of n tokens, each token told apart by its position.
EventTokens(n) == [i \in 1..n |-> i]

ChunkEvents ==
  /\ event_chunks = None
  /\ event_chunks' = Some(chunk_event(tokens))
  /\ UNCHANGED <<tokens, outside_chunk>>

InitChunk ==
  /\ IdleInit({"chunk"})
  /\ \E n \in 0..MaxTokens : ChunkInit(EventTokens(n))

NextChunk == ChunkEvents

SpecChunk == InitChunk /\ [][NextChunk]_vars

\* ------------------------------------------------------ query interpreter
\* QueryProcessor._extract_time_filters.  A query is the text the method
\* receives (lower case), kept as the sequence of its characters, so that
\* `word in query` and re.search are what they are in the code: tests on
\* substrings.  A date string 'YYYY-MM-DD' is the triple <<year, month, day>>.

Ymd(y, m, d) == <<y, m, d>>

TimeFilters(df, dt) == [date_from |-> df, date_to |-> dt]

Digits == <<"0", "1", "2", "3", "4", "5", "6", "7", "8", "9">>

IsDigit(c) == \E i \in DOMAIN Digits : Digits[i] = c

\* \w of the re module, over the characters that queries are made of.
IsWordChar(c) == c # " "

DigitValue(c) == (CHOOSE i \in DOMAIN Digits : Digits[i] = c) - 1

\* int(s) for a string of digits
RECURSIVE int_of(_)
int_of(s) ==
  IF s = << >> THEN 0
  ELSE 10 * int_of(SubSeq(s, 1, Len(s) - 1)) + DigitValue(s[Len(s)])

\* str(n) for n >= 0
RECURSIVE str_of(_)
str_of(n) ==
  IF n < 10 THEN <<Digits[n + 1]>> ELSE str_of(n \div 10) \o <<Digits[(n % 10) + 1]>>

\* word in query
Contains(query_text, word) ==
  \E i \in 1..(Len(query_text) - Len(word) + 1) :
    SubSeq(query_text, i, i + Len(word) - 1) = word

StartsAt(query_text, i, word) ==
  /\ i + Len(word) - 1 <= Len(query_text)
  /\ SubSeq(query_text, i, i + Len(word) - 1) = word

\* The words the code looks for.
Word_recent == <<"r", "e", "c", "e", "n", "t">>
Word_latest == <<"l", "a", "t", "e", "s", "t">>
Word_current == <<"c", "u", "r", "r", "e", "n", "t">>
Phrase_this_year == <<"t", "h", "i", "s", " ", "y", "e", "a", "r">>
Phrase_last_year == <<"l", "a", "s", "t", " ", "y", "e", "a", "r">>
Prefix_last == <<"l", "a", "s", "t", " ">>
Suffix_month == <<" ", "m", "o", "n", "t", "h">>
Word_january == <<"j", "a", "n", "u", "a", "r", "y">>
Word_february == <<"f", "e", "b", "r", "u", "a", "r", "y">>
Word_march == <<"m", "a", "r", "c", "h">>
Word_april == <<"a", "p", "r", "i", "l">>
Word_may == <<"m", "a", "y">>
Word_june == <<"j", "u", "n", "e">>
Word_july == <<"j", "u", "l", "y">>
Word_august == <<"a", "u", "g", "u", "s", "t">>
Word_september == <<"s", "e", "p", "t", "e", "m", "b", "e", "r">>
Word_october == <<"o", "c", "t", "o", "b", "e", "r">>
Word_november == <<"n", "o", "v", "e", "m", "b", "e", "r">>
Word_december == <<"d", "e", "c", "e", "m", "b", "e", "r">>

\* Words of a query that the code does not look for.
Word_measles == <<"m", "e", "a", "s", "l", "e", "s">>
Word_mayotte == <<"m", "a", "y", "o", "t", "t", "e">>
Phrase_last_3_months == <<"l", "a", "s", "t", " ", "3", " ", "m", "o", "n", "t", "h", "s">>

\* month_names, in the order the dict is iterated.
month_names ==
  <<<<Word_january, 1>>,
    <<Word_february, 2>>,
    <<Word_march, 3>>,
    <<Word_april, 4>>,
    <<Word_may, 5>>,
    <<Word_june, 6>>,
    <<Word_july, 7>>,
    <<Word_august, 8>>,
    <<Word_september, 9>>,
    <<Word_october, 10>>,
    <<Word_november, 11>>,
    <<Word_december, 12>>>>


\* ----- datetime: the proleptic Gregorian calendar of the datetime module
CalendarYears == 2000..2100

IsLeap(y) == (y % 4 = 0 /\ y % 100 # 0) \/ y % 400 = 0

DaysInMonth(y, m) ==
  IF m = 2 THEN (IF IsLeap(y) THEN 29 ELSE 28)
  ELSE IF m \in {4, 6, 9, 11} THEN 30 ELSE 31

DaysBeforeYear(y) ==
  LET p == y - 1 IN p * 365 + (p \div 4) - (p \div 100) + (p \div 400)

RECURSIVE DaysBeforeMonth(_, _)
DaysBeforeMonth(y, m) ==
  IF m = 1 THEN 0 ELSE DaysBeforeMonth(y, m - 1) + DaysInMonth(y, m - 1)

\* date.toordinal
toordinal(date) ==
  DaysBeforeYear(date[1]) + DaysBeforeMonth(date[1], date[2]) + date[3]

\* date.fromordinal
fromordinal(n) ==
  LET y == CHOOSE yy \in CalendarYears :
             DaysBeforeYear(yy) < n /\ n <= DaysBeforeYear(yy + 1)
      in_year == n - DaysBeforeYear(y)
      m == CHOOSE mm \in 1..12 :
             /\ DaysBeforeMonth(y, mm) < in_year
             /\ in_year <= DaysBeforeMonth(y, mm) + DaysInMonth(y, mm)
  IN Ymd(y, m, in_year - DaysBeforeMonth(y, m))

\* date - timedelta(days=k)
minus_days(date, k) == fromordinal(toordinal(date) - k)

\* 'Recent (last 2 years)': timedelta(days=730)
RecentDays == 730

\* 'last N months': timedelta(days=months*30)
DaysPerMonth == 30

\* re.search(r'\b(20\d{2})\b', query): the positions where the pattern
\* matches.
YearMatches(query_text) ==
  {i \in 1..(Len(query_text) - 3) :
     /\ query_text[i] = "2" /\ query_text[i + 1] = "0"
     /\ IsDigit(query_text[i + 2]) /\ IsDigit(query_text[i + 3])
     /\ (i = 1 \/ ~IsWordChar(query_text[i - 1]))
     /\ (i + 3 = Len(query_text) \/ ~IsWordChar(query_text[i + 4]))}

SetMin(S) == CHOOSE x \in S : \A y \in S : x <= y

\* group(1) of the leftmost match, if there is one
year_match(query_text) ==
  IF YearMatches(query_text) = {} THEN None
  ELSE LET i == SetMin(YearMatches(query_text))
       IN Some(SubSeq(query_text, i, i + 3))

\* re.search(r'last (\d+) months?', query): <<i, k>> where "last " starts
\* at i and is followed by k digits and " month".
MonthsMatches(query_text) ==
  {ik \in (1..Len(query_text)) \X (1..Len(query_text)) :
     LET i == ik[1]
         k == ik[2]
         j == i + Len(Prefix_last)
     IN /\ StartsAt(query_text, i, Prefix_last)
        /\ j + k - 1 <= Len(query_text)
        /\ \A d \in j..(j + k - 1) : IsDigit(query_text[d])
        /\ StartsAt(query_text, j + k, Suffix_month)}

\* group(1) of the leftmost match, if there is one
months_match(query_text) ==
  IF MonthsMatches(query_text) = {} THEN None
  ELSE LET i == SetMin({ik[1] : ik \in MonthsMatches(query_text)})
           k == CHOOSE kk \in 1..Len(query_text) : <<i, kk>> \in MonthsMatches(query_text)
           j == i + Len(Prefix_last)
       IN Some(SubSeq(query_text, j, j + k - 1))

\* The months whose name the query contains, as indexes of month_names.
MonthsFound(query_text) ==
  {n \in DOMAIN month_names : Contains(query_text, month_names[n][1])}

YearRange(y) == TimeFilters(Some(Ymd(y, 1, 1)), Some(Ymd(y, 12, 31)))

\* The month branch: the last day is the day before the first of the next
\* month.
month_range(year, month_num) ==
  LET next_month_year == IF month_num = 12 THEN year + 1 ELSE year
      next_month == IF month_num = 12 THEN 1 ELSE month_num + 1
      last_day == minus_days(Ymd(next_month_year, next_month, 1), 1)[3]
  IN TimeFilters(Some(Ymd(year, month_num, 1)), Some(Ymd(year, month_num, last_day)))

\* _extract_time_filters, the tests in their order: which branch returns.
\* 1 recent/latest/current, 2 this year, 3 last year, 4 a four-digit year,
\* 5 a month name, 6 last N months, 0 none.
time_cue(query_text, now_date) ==
  LET year == now_date[1]
  IN IF \E word \in {Word_recent, Word_latest, Word_current} : Contains(query_text, word)
     THEN 1
     ELSE IF Contains(query_text, Phrase_this_year) \/ Contains(query_text, str_of(year))
     THEN 2
     ELSE IF Contains(query_text, Phrase_last_year) \/ Contains(query_text, str_of(year - 1))
     THEN 3
     ELSE IF year_match(query_text) # None THEN 4
     ELSE IF MonthsFound(query_text) # {} THEN 5
     ELSE IF months_match(query_text) # None THEN 6
     ELSE 0

\* _extract_time_filters, the filters each branch returns.
cue_filters(cue, query_text, now_date) ==
  LET year == now_date[1]
  IN CASE cue = 1 -> TimeFilters(Some(minus_days(now_date, RecentDays)), None)
       [] cue = 2 -> YearRange(year)
       [] cue = 3 -> YearRange(year - 1)
       [] cue = 4 -> YearRange(int_of(The(year_match(query_text))))
       [] cue = 5 -> month_range(year, month_names[SetMin(MonthsFound(query_text))][2])
       [] cue = 6 -> TimeFilters(Some(minus_days(now_date,
                          int_of(The(months_match(query_text))) * DaysPerMonth)), None)
       [] OTHER -> TimeFilters(None, None)

\* _extract_time_filters that looks for a month name before anything else.
extract_time_filters_month_first(query_text, now_date) ==
  cue_filters(IF MonthsFound(query_text) # {} THEN 5 ELSE time_cue(query_text, now_date),
              query_text, now_date)

\* QueryProcessor._extract_time_filters with datetime.now() = now_date
extract_time_filters(query_text, now_date) ==
  cue_filters(time_cue(query_text, now_date), query_text, now_date)

\* The phrases queries are made of: every cue the code looks for, years
\* before, at and after the system years, a hazard and a place.
YearLiterals == {str_of(2023), str_of(2024), str_of(2025)}

MonthWords == {month_names[n][1] : n \in DOMAIN month_names}

RelativeWords == {Word_recent, Word_latest, Word_current}

Vocabulary ==
  RelativeWords \cup {Phrase_this_year, Phrase_last_year} \cup YearLiterals
    \cup MonthWords \cup {Phrase_last_3_months, Word_measles, Word_mayotte}

PhraseLists == UNION {[1..n -> Vocabulary] : n \in 0..MaxPhrases}

\* The phrases of a query separated by single spaces.
RECURSIVE Join(_)
Join(ps) ==
  IF ps = << >> THEN << >>
  ELSE IF Len(ps) = 1 THEN ps[1]
  ELSE ps[1] \o <<" ">> \o Join(Tail(ps))

\* The dates datetime.now() can give: a leap day, the start and the end of
\* a year.
Todays == {Ymd(2024, 2, 29), Ymd(2025, 1, 10), Ymd(2025, 12, 31)}

ExtractTimeFilters ==
  /\ time_filters = None
  /\ time_filters' = Some(extract_time_filters(Join(phrases), today))
  /\ UNCHANGED <<phrases, today, outside_query>>

InitQuery ==
  /\ IdleInit({"query"})
  /\ \E ps \in PhraseLists, d \in Todays : QueryInit(ps, d)

NextQuery == ExtractTimeFilters

SpecQuery == InitQuery /\ [][NextQuery]_vars

\* ------------------------------------------------------------ properties
Returned(p) == pc[p] = "done" /\ result[p] # None
Res(p) == The(result[p])

SameIndex(p) == collection = pre[p].collection
SameSnapshot(p) == current_db = pre[p].current_db
SameMetadata(p) == metadata = pre[p].metadata
SameBackups(p) == backups = pre[p].backups

NewContent(p) == chunk_events(extract_events(new_file[p]))

\* The call failed with an exception raised after step 4 had written a backup
\* and before the swap (reset + bulk add) had completed.
FailedBeforeSwapDone(p) ==
  /\ Returned(p)
  /\ backup_id[p] # None /\ backup_id[p] # Some(NoBackupNeeded)
  /\ Res(p).error \in {"embed_batch", "create_collection", "add_documents"}

\* C1: a call that raises between the backup and the end of the index swap
\* returns with the index, the current snapshot and the recorded versions as
\* they were before the call.
C1_FailureRestoresPreUpdateState ==
  \A p \in Procs :
    FailedBeforeSwapDone(p) => SameIndex(p) /\ SameSnapshot(p) /\ SameMetadata(p)

\* C2: at most one call is between the start of its index reset and the end
\* of its bulk add.
InSwap(p) == pc[p] = "add"

C2_SingleWriter == Cardinality({p \in Procs : InSwap(p)}) <= 1

\* C3: a search that runs while an update of a non-empty index is in
\* progress finds the complete pre-update or the complete post-update content.
C3_SearchSeesCompleteContent ==
  seen # None =>
    \A p \in The(seen).during :
      pre[p].collection # {} =>
        The(seen).content \in {pre[p].collection, NewContent(p)}

\* The upload cannot pass step 2: unreadable, a required column missing, or
\* an empty table.
Rejected(f) == f.kind = "corrupt" \/ ~f.cols \/ DOMAIN f.rows = {}

\* C4: a call whose upload is unreadable, lacks a required column or is an
\* empty table returns success=false with the index, the current snapshot,
\* the backups and the metadata store unchanged.
C4_EarlyFailureMutatesNothing ==
  \A p \in Procs :
    pc[p] = "done" /\ Rejected(new_file[p]) =>
      /\ result[p] # None /\ ~Res(p).success
      /\ SameIndex(p) /\ SameSnapshot(p) /\ SameBackups(p) /\ SameMetadata(p)

C4_Witness ==
  \E p \in Procs :
    /\ Returned(p) /\ Rejected(new_file[p]) /\ new_file[p].kind = "xlsx"
    /\ Res(p).error = "Validation failed"
    /\ pre[p].collection # {} /\ pre[p].current_db # None

\* C5: a call whose upload equals the current snapshot, with a non-empty
\* index, returns the change counts {new 0, modified 0, deleted 0} and leaves
\* the index as it was.
ZeroCounts == [new |-> 0, modified |-> 0, deleted |-> 0]

C5_IdenticalUploadReportsZeroCounts ==
  \A p \in Procs :
    Returned(p) /\ pre[p].current_db = Some(new_file[p]) /\ pre[p].collection # {} =>
      Res(p).changes = Some(ZeroCounts) /\ SameIndex(p)

IdsOf(events) == {e.entry_id : e \in events}

\* C6: against old snapshot A, _detect_changes puts the ids only in B in
\* new, the common ids with a different summary in modified, the ids only in
\* A in deleted, and nothing else anywhere; without A every id of B is new.
C6_DetectChangesPartitions ==
  \A p \in Procs :
    pc[p] = "decide" =>
      LET B == new_file[p].rows
          cs == changeset[p]
      IN  IF current_db = None
          THEN /\ IdsOf(cs.new_events) = DOMAIN B
               /\ cs.modified_events = {} /\ cs.deleted_events = {}
          ELSE LET A == The(current_db).rows
               IN  /\ IdsOf(cs.new_events) = DOMAIN B \ DOMAIN A
                   /\ IdsOf(cs.modified_events) =
                        {i \in DOMAIN A \cap DOMAIN B : A[i] # B[i]}
                   /\ IdsOf(cs.deleted_events) = DOMAIN A \ DOMAIN B

\* C7: after a call that returns success the index holds the chunks of
\* exactly the events of the uploaded snapshot.
C7_SuccessIndexIsNewSnapshot ==
  \A p \in Procs :
    Returned(p) /\ Res(p).success => collection = NewContent(p)

\* C8: a call that reports the bulk embedding job as pending returns
\* success=false and has applied nothing to the index, the current snapshot
\* or the metadata store.
C8_PendingAppliesNothing ==
  \A p \in Procs :
    Returned(p) /\ Res(p).message = "Batch processing started" =>
      /\ ~Res(p).success
      /\ SameIndex(p) /\ SameSnapshot(p) /\ SameMetadata(p)

C8_Witness ==
  \E p \in Procs :
    /\ Returned(p) /\ Res(p).message = "Batch processing started"
    /\ pre[p].collection # {} /\ pre[p].current_db # None
    /\ pre[p].current_db # Some(new_file[p])

NonEmptyCounts(ch) == ch.new + ch.modified + ch.deleted > 0

\* C9: a call that returns success with a non-empty change set has appended
\* exactly one record to the update history, made its version id the current
\* version with the event and chunk counts of the upload, and promoted the
\* upload to current snapshot.
C9_SuccessRecordsAndPromotes ==
  \A p \in Procs :
    Returned(p) /\ Res(p).success /\ Res(p).changes # None
      /\ NonEmptyCounts(The(Res(p).changes)) =>
      LET h == metadata.update_history
          h0 == pre[p].metadata.update_history
      IN  /\ Len(h) = Len(h0) + 1
          /\ SubSeq(h, 1, Len(h0)) = h0
          /\ h[Len(h)].version_id = Res(p).version_id
          /\ h[Len(h)].changes = The(Res(p).changes)
          /\ metadata.current_version =
               [id |-> Res(p).version_id,
                total_events |-> Cardinality(DOMAIN new_file[p].rows),
                total_chunks |-> Cardinality(NewContent(p))]
          /\ current_db = Some(new_file[p])

C9_Witness ==
  \E p \in Procs :
    /\ Returned(p) /\ Res(p).success /\ Res(p).changes # None
    /\ NonEmptyCounts(The(Res(p).changes))
    /\ pre[p].current_db # None /\ pre[p].metadata.update_history # << >>

\* C10: a call that fails after step 4 returns a result carrying the version
\* id it attempted.
C10_FailureCarriesVersionId ==
  \A p \in Procs :
    Returned(p) /\ ~Res(p).success /\ backup_id[p] # None =>
      Res(p).version_id = version_id[p]

\* The call ran the whole update, cleanup_old_backups included.
FullUpdateDone(p) == Returned(p) /\ Res(p).success /\ Res(p).changes # None

Expired(b) == b.stamp < now - RetentionDays

\* C11: after a successful update no backup written by _create_backup that
\* is older than the retention window is left in the backups directory.
C11_ExpiredBackupsPurged ==
  \A p \in Procs :
    FullUpdateDone(p) => \A b \in backups : ~Expired(b)

\* C12: a call that detects zero changes while the index is empty goes on
\* with every event of the upload as new, and when it returns success the
\* index holds the chunks of all events of the upload.
ZeroChangesOnEmptyIndex(p) ==
  /\ pre[p].collection = {}
  /\ pre[p].current_db # None
  /\ new_file[p].kind = "xlsx" /\ new_file[p].cols /\ DOMAIN new_file[p].rows # {}
  /\ DOMAIN new_file[p].rows \subseteq DOMAIN The(pre[p].current_db).rows
  /\ \A i \in DOMAIN new_file[p].rows : new_file[p].rows[i] = The(pre[p].current_db).rows[i]

C12_EmptyIndexFirstLoad ==
  \A p \in Procs :
    ZeroChangesOnEmptyIndex(p) =>
      /\ pc[p] \in {"backup", "rebuild", "reset", "add", "record", "promote", "cleanup"} =>
           changeset[p] = ChangeSet(extract_events(new_file[p]), {}, {})
      /\ Returned(p) =>
           /\ Res(p).message # "No changes detected"
           /\ Res(p).success =>
                /\ collection = {Chunk(Event(i, new_file[p].rows[i])) : i \in DOMAIN new_file[p].rows}
                /\ Res(p).changes = Some([new |-> Cardinality(DOMAIN new_file[p].rows),
                                          modified |-> 0, deleted |-> 0])

C12_Witness ==
  \E p \in Procs :
    /\ ZeroChangesOnEmptyIndex(p)
    /\ Returned(p) /\ Res(p).success
    /\ collection # {}

LastCall == The(embed_call)

\* C13: a second embed_batch call with the same texts as the call before it
\* (cache enabled in both, the first one returned) sends no request.
C13_SecondCallIssuesNoRequests ==
  (embed_call # None /\ LastCall.repeats) => LastCall.out.calls = 0

\* C14: embed_batch takes cache hits from the cache and hands only the
\* uncached texts to the API; fewer of them than the threshold go through
\* synchronous requests and the call returns the vectors of all texts; at or
\* above the threshold the call submits a bulk job and returns pending.
C14_HitsFirstThenLaneByThreshold ==
  embed_call # None =>
    LET L == LastCall
        Hit(t) == L.use_cache /\ text_hash(t) \in L.cache_before
        Miss(t) == ~Hit(t)
        rest == SelectSeq(L.texts, Miss)
    IN /\ L.out.dispatched = rest
       /\ rest = << >> =>
            /\ L.out.calls = 0
            /\ L.out.result = Vectors(HashesOf(L.texts))
       /\ (rest # << >> /\ Len(rest) < batch_threshold /\ L.out.api = "ok") =>
            /\ L.out.lane = "direct"
            /\ L.out.result = Vectors(HashesOf(L.texts))
       /\ (Len(rest) >= batch_threshold /\ rest # << >> /\ L.out.submit = "ok") =>
            /\ L.out.lane = "batch"
            /\ L.out.api = "none"
            /\ L.out.result = Pending

C14_Witness ==
  /\ embed_call # None
  /\ LastCall.use_cache
  /\ HashesOf(LastCall.texts) \cap LastCall.cache_before # {}
  /\ LastCall.out.dispatched # << >>
  /\ LastCall.out.result = Pending

\* C15: when the bulk submission fails at the request file, the upload or
\* the job creation, embed_batch sends the uncached texts through the
\* synchronous path and returns the vectors of all texts, not pending and
\* not the submission's error.
C15_SubmissionFailureFallsBack ==
  (embed_call # None /\ LastCall.out.submit \in Submits \ {"ok"}) =>
    /\ LastCall.out.lane = "fallback"
    /\ LastCall.out.api # "none"
    /\ LastCall.out.result # Pending
    /\ LastCall.out.api = "ok" =>
         LastCall.out.result = Vectors(HashesOf(LastCall.texts))

C15_Witness ==
  /\ embed_call # None
  /\ LastCall.out.submit = "create_fails"
  /\ LastCall.out.result.kind = "vectors"
  /\ Len(LastCall.out.dispatched) >= batch_threshold

\* The chunk's tokens without its first n.
DropLeading(span, n) == SubSeq(span, n + 1, Len(span))

RECURSIVE Reassemble(_, _)
Reassemble(cs, i) ==
  IF i > Len(cs) THEN << >>
  ELSE (IF i = 1 THEN cs[i].tokens ELSE DropLeading(cs[i].tokens, ChunkOverlap))
       \o Reassemble(cs, i + 1)

\* C19: the token spans of an event's chunks, taken in chunk_index order with
\* the leading chunk_overlap tokens of every chunk after the first dropped,
\* concatenate to the event's token sequence.
C19_ChunksReassembleToEvent ==
  event_chunks # None =>
    /\ \A i \in DOMAIN The(event_chunks) : The(event_chunks)[i].chunk_index = i - 1
    /\ Reassemble(The(event_chunks), 1) = tokens

C19_Witness ==
  /\ event_chunks # None
  /\ Len(The(event_chunks)) >= 3
  /\ The(event_chunks)[Len(The(event_chunks))].token_count < ChunkSize

\* C20: every chunk chunk_events produces has a token_count, the length of
\* its token span, of at most the chunk size.
C20_ChunkWithinSize ==
  event_chunks # None =>
    \A i \in DOMAIN The(event_chunks) :
      /\ The(event_chunks)[i].token_count = Len(The(event_chunks)[i].tokens)
      /\ The(event_chunks)[i].token_count <= ChunkSize

C20_Witness ==
  /\ event_chunks # None
  /\ Len(tokens) > ChunkSize
  /\ \E i \in DOMAIN The(event_chunks) : The(event_chunks)[i].token_count = ChunkSize

Answer == The(answer)

Answered == answer # None /\ Answer.out.kind = "results" /\ handle = "live"

SatisfiesAll(meta, filters) ==
  /\ \A k \in {"hazard_normalized", "location", "section"} :
       filters[k] # None => meta[k] = The(filters[k])
  /\ filters.date_from # None => meta.date_unix >= date_timestamp(The(filters.date_from))
  /\ filters.date_to # None => meta.date_unix <= date_timestamp(The(filters.date_to))

\* C17: every result of a search with filters satisfies all of them: hazard,
\* location and section equal the chunk's fields and the chunk's date_unix
\* lies within [date_from, date_to].
C17_ResultsSatisfyAllFilters ==
  (answer # None /\ Answer.out.kind = "results") =>
    \A i \in DOMAIN Answer.out.ids :
      SatisfiesAll(generate_metadata(Answer.out.ids[i]), Answer.filters)

\* C18: retrieve, and chat built on it, against an empty index return an
\* empty result set and no error (the embedding and completion calls
\* answering).
C18_EmptyIndexGivesEmptyResult ==
  (/\ answer # None
   /\ Answer.op \in {"retrieve", "chat"}
   /\ Answer.external_ok
   /\ chroma = {})
  => Answer.out = Results(<< >>)

\* The candidates of the retrieve call on record.
AnswerCandidates ==
  retrieve_candidates(chroma, Answer.sem_order, Answer.kw_order, Answer.filters,
                      Answer.use_hybrid)

\* The re-ranking model did not load, and a retrieve call that asked for
\* re-ranking has been answered by the index.
DegradedRetrieve ==
  /\ Answered /\ Answer.op = "retrieve"
  /\ Answer.use_reranking /\ ~reranking_enabled

\* C23: when the re-ranking model failed to load, a retrieve call that asks
\* for re-ranking returns the first top_k candidates in the order and with
\* the scores of the retrieval stage, and the log tells that re-ranking is
\* off.
C23_RerankerFailureDegrades ==
  DegradedRetrieve =>
    /\ Answer.out.ids = Take(AnswerCandidates, Answer.top_k)
    /\ Answer.scored_by = "retrieval"
    /\ "Could not load re-ranker. Re-ranking disabled." \in log
    /\ "No re-ranking, returning top candidates" \in log

C23_Witness ==
  /\ DegradedRetrieve
  /\ Answer.top_k < Len(AnswerCandidates)
  /\ Answer.sem_order = ReverseOrder


\* --------------------------------------------------------- metadata store
\* MetadataService over metadata.json, and RAGOrchestrator.get_stats.  The
\* in-memory dict is the variable metadata, the index is the variable
\* collection; the process_upload variables stay as constructed.

NoJsonFile == [kind |-> "absent"]
JsonFile(md) == [kind |-> "json", content |-> md]
TruncatedJson == [kind |-> "truncated"]

\* _load_metadata: the file's content, or the default structure when the
\* file is missing or json.load raises.
load_metadata(file) == IF file.kind = "json" THEN file.content ELSE default_metadata

\* How _save_metadata can end: the dict is written; open() raises and the
\* file stays as it was; json.dump raises after open() has truncated the
\* file.  Both exceptions are caught and logged.
SaveOutcomes == {"saved", "open_fails", "dump_fails"}

save_metadata(md, file, outcome) ==
  CASE outcome = "saved" -> JsonFile(md)
    [] outcome = "open_fails" -> file
    [] outcome = "dump_fails" -> TruncatedJson

\* get_statistics: the counters of the current version.
statistics(md) ==
  [total_events |-> md.current_version.total_events,
   total_chunks |-> md.current_version.total_chunks]

\* update_metadata: merge current_version, append update_record.
update_metadata(md, new_data) ==
  [current_version |->
     IF new_data.current_version = None THEN md.current_version
     ELSE [md.current_version EXCEPT
             !.total_events = The(new_data.current_version).total_events,
             !.total_chunks = The(new_data.current_version).total_chunks],
   update_history |->
     IF new_data.update_record = None THEN md.update_history
     ELSE Append(md.update_history, The(new_data.update_record))]

Reverse(seq) == [i \in DOMAIN seq |-> seq[Len(seq) + 1 - i]]

\* get_update_history: newest first, at most limit records.
get_update_history(md, limit) == Take(Reverse(md.update_history), limit)

RecoveredVersion == <<"v_recovered_from_chromadb">>

EventIdsIn(coll) == {c.event_id : c \in coll}

NewOnly(n) == [new |-> n, modified |-> 0, deleted |-> 0]

\* sync_from_chromadb once the collection's count is known not to be 0.
sync_record(md, coll) ==
  record_update(md, RecoveredVersion, Cardinality(EventIdsIn(coll)), Cardinality(coll),
                NewOnly(Cardinality(EventIdsIn(coll))), "completed")

MetaReturn(op, value) == Some([op |-> op, value |-> value])

HistoryRecord(n) ==
  [version_id |-> VersionId(n), changes |-> NewOnly(0), status |-> "completed",
   total_events |-> 0]

\* The new_data a caller hands to update_metadata: the counters of the
\* index, a record for the history, or both or neither.
NewData ==
  [current_version : Opt({[total_events |-> Cardinality(EventIdsIn(collection)),
                           total_chunks |-> Cardinality(collection)]}),
   update_record : Opt({HistoryRecord(Len(metadata.update_history) + 1)})]

Appends == Len(metadata.update_history) < MaxHistory

\* record_update as process_upload calls it once the index holds the new
\* chunks (lines 221-229).
RecordUpdate ==
  /\ Appends
  /\ \E outcome \in SaveOutcomes :
       LET md == record_update(metadata, VersionId(Len(metadata.update_history) + 1),
                               Cardinality(EventIdsIn(collection)), Cardinality(collection),
                               NewOnly(Cardinality(EventIdsIn(collection))), "completed")
       IN /\ metadata' = md
          /\ metadata_file' = save_metadata(md, metadata_file, outcome)
  /\ meta_return' = MetaReturn("record_update", "None")
  /\ UNCHANGED <<collection, outside_meta>>

UpdateMetadata ==
  /\ Appends
  /\ \E new_data \in NewData, outcome \in SaveOutcomes :
       LET md == update_metadata(metadata, new_data)
       IN /\ metadata' = md
          /\ metadata_file' = save_metadata(md, metadata_file, outcome)
  /\ meta_return' = MetaReturn("update_metadata", "None")
  /\ UNCHANGED <<collection, outside_meta>>

\* get_statistics reloads the dict from disk before it answers.
GetStatistics ==
  /\ metadata' = load_metadata(metadata_file)
  /\ meta_return' = MetaReturn("get_statistics", statistics(load_metadata(metadata_file)))
  /\ UNCHANGED <<collection, metadata_file, outside_meta>>

GetUpdateHistory ==
  /\ meta_return' = MetaReturn("get_update_history",
                               get_update_history(metadata, HistoryLimit))
  /\ UNCHANGED <<collection, metadata, metadata_file, outside_meta>>

\* sync_from_chromadb: False for an empty collection, else the recovered
\* version is recorded and True is returned.
SyncFromChromadb ==
  /\ Appends
  /\ IF collection = {}
     THEN /\ meta_return' = MetaReturn("sync_from_chromadb", FALSE)
          /\ UNCHANGED <<metadata, metadata_file>>
     ELSE /\ \E outcome \in SaveOutcomes :
               /\ metadata' = sync_record(metadata, collection)
               /\ metadata_file' = save_metadata(sync_record(metadata, collection),
                                                 metadata_file, outcome)
          /\ meta_return' = MetaReturn("sync_from_chromadb", TRUE)
  /\ UNCHANGED <<collection, outside_meta>>

\* RAGOrchestrator.get_stats: get_statistics; when the collection holds
\* chunks and the metadata shows none, sync_from_chromadb and
\* get_statistics again.
GetStats ==
  /\ Len(load_metadata(metadata_file).update_history) < MaxHistory
  /\ LET loaded == load_metadata(metadata_file)
         is_loaded == statistics(loaded).total_chunks > 0
         chroma_count == Cardinality(collection)
     IN IF chroma_count > 0 /\ ~is_loaded
        THEN \E outcome \in SaveOutcomes :
               LET file == save_metadata(sync_record(loaded, collection), metadata_file,
                                         outcome)
               IN /\ metadata_file' = file
                  /\ metadata' = load_metadata(file)
                  /\ meta_return' =
                       MetaReturn("get_stats",
                                  [loaded |-> TRUE,
                                   chunk_count |-> statistics(load_metadata(file)).total_chunks])
        ELSE /\ metadata' = loaded
             /\ meta_return' =
                  MetaReturn("get_stats", [loaded |-> is_loaded,
                                           chunk_count |-> statistics(loaded).total_chunks])
             /\ UNCHANGED metadata_file
  /\ UNCHANGED <<collection, outside_meta>>

\* The index changes under the metadata store: create_collection(reset=True)
\* and add_documents, as process_upload calls them at lines 216 and 217.
IndexReset ==
  /\ collection # {}
  /\ collection' = create_collection_reset(collection)
  /\ meta_return' = MetaReturn("create_collection", "None")
  /\ UNCHANGED <<metadata, metadata_file, outside_meta>>

IndexAdd ==
  /\ \E A \in LoadedFrames :
       collection' = add_documents(collection, chunk_events(extract_events(A)))
  /\ collection' # collection
  /\ meta_return' = MetaReturn("add_documents", "None")
  /\ UNCHANGED <<metadata, metadata_file, outside_meta>>

InitMeta == IdleInit({})

NextMeta ==
  \/ RecordUpdate \/ UpdateMetadata \/ GetStatistics \/ GetUpdateHistory
  \/ SyncFromChromadb \/ GetStats \/ IndexReset \/ IndexAdd

SpecMeta == InitMeta /\ [][NextMeta]_vars

\* -------------------------------------------------------- table validation
\* DataProcessor.validate_data and extract_events on a DataFrame told row by
\* row: the columns it has, and for each row whether ENTRY_# is there (NaN
\* otherwise) and whether DATE parses.

required_columns == {"ENTRY_#", "DATE", "HAZARD", "REPORTED_LOCATION", "SUMMARY", "SECTION"}

Row(entry, date_ok) == [entry |-> entry, date_ok |-> date_ok]

Rows == {Row(e, d) : e \in Opt(Ids), d \in BOOLEAN}

Tables ==
  [columns : {required_columns \ missing : missing \in SUBSET {"ENTRY_#", "DATE", "SUMMARY"}},
   rows : UNION {[1..n -> Rows] : n \in 0..MaxRows}]

\* df['ENTRY_#'].isna().sum()
empty_ids(df) == Cardinality({i \in DOMAIN df.rows : df.rows[i].entry = None})

\* validate_data where a row without ENTRY_# is an error.
validate_data_result_strict(df) ==
  LET missing_columns == required_columns \ df.columns
      errors == (IF missing_columns # {} THEN {"Missing required columns"} ELSE {})
                  \cup (IF Len(df.rows) = 0 THEN {"DataFrame is empty"} ELSE {})
                  \cup (IF "ENTRY_#" \in df.columns /\ empty_ids(df) > 0
                        THEN {"rows have missing ENTRY_#"} ELSE {})
  IN [valid |-> errors = {}, errors |-> errors, warnings |-> {},
      total_rows |-> Len(df.rows)]

\* DataProcessor.validate_data: the whole result dict.  pd.to_datetime with
\* errors='coerce' turns what it cannot parse into NaT and adds no error.
validate_data_result(df) ==
  LET missing_columns == required_columns \ df.columns
      errors == (IF missing_columns # {} THEN {"Missing required columns"} ELSE {})
                  \cup (IF Len(df.rows) = 0 THEN {"DataFrame is empty"} ELSE {})
      warnings == IF "ENTRY_#" \in df.columns /\ empty_ids(df) > 0
                  THEN {"rows have missing ENTRY_# (will be skipped)"} ELSE {}
  IN [valid |-> errors = {}, errors |-> errors, warnings |-> warnings,
      total_rows |-> Len(df.rows)]

\* The rows that the loop of extract_events turns into events: ENTRY_# is
\* there (line 259), DATE parses (lines 273-282) and no column the loop
\* reads with row[...] is missing (KeyError, caught at line 312).
RowExtracted(df, i) ==
  /\ df.rows[i].entry # None
  /\ required_columns \subseteq df.columns
  /\ df.rows[i].date_ok

\* DataProcessor.extract_events: the events in row order, each with the
\* ENTRY_# value and the index of the row it comes from; KeyError when there
\* is no ENTRY_# column.
extract_events_of(df) ==
  IF "ENTRY_#" \notin df.columns
  THEN [kind |-> "raised", events |-> << >>]
  ELSE LET Kept(i) == RowExtracted(df, i)
           kept == SelectSeq([i \in DOMAIN df.rows |-> i], Kept)
       IN [kind |-> "events",
           events |-> [k \in DOMAIN kept |->
                         [entry |-> The(df.rows[kept[k]].entry), row |-> kept[k]]]]

ValidateData ==
  /\ validation = None
  /\ validation' = Some(validate_data_result(table))
  /\ UNCHANGED <<table, extracted, outside_table>>

ExtractEvents ==
  /\ extracted = None
  /\ extracted' = Some(extract_events_of(table))
  /\ UNCHANGED <<table, validation, outside_table>>

InitTable ==
  /\ IdleInit({"table"})
  /\ \E df \in Tables : TableInit(df)

NextTable == ValidateData \/ ExtractEvents

SpecTable == InitTable /\ [][NextTable]_vars

\* ------------------------------------------------------ session timeouts
TestTimeouts ==
  [activity |-> TestActivityTimeout, inactivity |-> TestInactivityTimeout]

TimeoutConfigs == {DefaultTimeouts, TestTimeouts}

\* The instants the clock and the timestamps range over: each configured
\* timeout, and up to MaxSlack seconds past it.
Instants ==
  {0} \cup {limit + d : limit \in {SessionActivityTimeout, SessionInactivityTimeout,
                                    TestActivityTimeout, TestInactivityTimeout},
                        d \in 0..MaxSlack}

\* datetime.isoformat()
isoformat(t) == [kind |-> "iso", t |-> t]

\* datetime.fromisoformat(): the instant the text denotes, or ValueError.
fromisoformat(value) ==
  IF value.kind = "iso"
  THEN [ok |-> TRUE, t |-> value.t]
  ELSE [ok |-> FALSE, t |-> 0]

\* Python's "not value" for a session entry: None and "" are falsy.
Falsy(value) == value.kind \in {"none", "empty"}

SessionValues == {NoValue, EmptyString, NotATimestamp} \cup {isoformat(t) : t \in Instants}

Sessions == [login_time : SessionValues, last_activity : SessionValues]

NotExpired == [expired |-> FALSE, reason |-> "None"]
SessionExpired(why) == [expired |-> TRUE, reason |-> why]

\* The same checks with the inactivity test made before the activity test.
check_session_timeout_inactivity_first(auth, sess, t, cfg) ==
  IF ~auth THEN NotExpired
  ELSE IF Falsy(sess.login_time) \/ Falsy(sess.last_activity) THEN SessionExpired("invalid")
  ELSE LET login_time == fromisoformat(sess.login_time)
           last_activity == fromisoformat(sess.last_activity)
       IN IF ~login_time.ok \/ ~last_activity.ok THEN SessionExpired("invalid")
          ELSE IF t - last_activity.t > cfg.inactivity THEN SessionExpired("inactivity")
          ELSE IF t - login_time.t > cfg.activity THEN SessionExpired("activity")
          ELSE NotExpired

\* check_session_timeout, lines 28-65.
check_session_timeout(auth, sess, t, cfg) ==
  IF ~auth THEN NotExpired
  ELSE IF Falsy(sess.login_time) \/ Falsy(sess.last_activity) THEN SessionExpired("invalid")
  ELSE LET login_time == fromisoformat(sess.login_time)
           last_activity == fromisoformat(sess.last_activity)
       IN IF ~login_time.ok \/ ~last_activity.ok THEN SessionExpired("invalid")
          ELSE IF t - login_time.t > cfg.activity THEN SessionExpired("activity")
          ELSE IF t - last_activity.t > cfg.inactivity THEN SessionExpired("inactivity")
          ELSE NotExpired

\* One call with its inputs and what it returned.
TimeoutCheck ==
  [authenticated |-> authenticated, session |-> session, now |-> utcnow,
   timeouts |-> timeouts,
   result |-> check_session_timeout(authenticated, session, utcnow, timeouts)]

CheckSessionTimeout ==
  /\ timeout_check' = Some(TimeoutCheck)
  /\ UNCHANGED <<authenticated, session, utcnow, timeouts, outside_session>>

\* before_request_handler for an authenticated user on a page other than
\* login, logout and index: an expired session is logged out and cleared,
\* any other has its last_activity set to the present.
BeforeRequest ==
  /\ authenticated
  /\ timeout_check' = Some(TimeoutCheck)
  /\ IF TimeoutCheck.result.expired
     THEN /\ authenticated' = FALSE
          /\ session' = ClearedSession
     ELSE /\ authenticated' = TRUE
          /\ session' = [session EXCEPT !.last_activity = isoformat(utcnow)]
  /\ UNCHANGED <<utcnow, timeouts, outside_session>>

\* landing.login with good credentials.
Login ==
  /\ ~authenticated
  /\ authenticated' = TRUE
  /\ session' = [login_time |-> isoformat(utcnow), last_activity |-> isoformat(utcnow)]
  /\ UNCHANGED <<utcnow, timeouts, timeout_check, outside_session>>

\* landing.logout
Logout ==
  /\ authenticated
  /\ authenticated' = FALSE
  /\ session' = ClearedSession
  /\ UNCHANGED <<utcnow, timeouts, timeout_check, outside_session>>

\* Time passes.
Advance ==
  /\ \E t \in Instants : t > utcnow /\ utcnow' = t
  /\ UNCHANGED <<authenticated, session, timeouts, timeout_check, outside_session>>

InitSession ==
  /\ IdleInit({"session"})
  /\ \E auth \in BOOLEAN, sess \in Sessions, t \in Instants, cfg \in TimeoutConfigs :
       /\ ~auth => sess = ClearedSession
       /\ SessionInit(auth, sess, t, cfg)

NextSession == CheckSessionTimeout \/ BeforeRequest \/ Login \/ Logout \/ Advance

SpecSession == InitSession /\ [][NextSession]_vars

\* --------------------------------------------------------- chat history
\* add_to_chat_history, line 44.
ChatHistoryLimit == 20

\* history[-n:]
LastN(history, n) ==
  IF Len(history) <= n THEN history
  ELSE SubSeq(history, Len(history) - n + 1, Len(history))

\* history[:n]
FirstN(history, n) ==
  IF Len(history) <= n THEN history ELSE SubSeq(history, 1, n)

\* get_user_chat_history: the session's list, created empty when absent.
get_user_chat_history(stored) == IF stored = None THEN << >> ELSE The(stored)

\* The same addition keeping the oldest messages when over the limit.
add_to_chat_history_keeping_first(stored, role, content) ==
  LET history == Append(get_user_chat_history(stored),
                        [role |-> role, content |-> content])
  IN IF Len(history) > ChatHistoryLimit
     THEN FirstN(history, ChatHistoryLimit)
     ELSE history

\* add_to_chat_history, lines 40-47: what session['chatbot_history'] holds
\* after the message is added.
add_to_chat_history(stored, role, content) ==
  LET history == Append(get_user_chat_history(stored),
                        [role |-> role, content |-> content])
  IN IF Len(history) > ChatHistoryLimit
     THEN LastN(history, ChatHistoryLimit)
     ELSE history

\* How a call of send_message ends: turned away before the history is
\* touched (lines 107-129), failed after the history was fetched (lines
\* 132-164 and the except clause), or answered.
SendOutcomes == {"rejected", "failed", "answered"}

\* send_message: the question and the reply of the n-th answered message
\* are added in that order; any other outcome adds nothing.
SendMessage ==
  \E outcome \in SendOutcomes :
    /\ sends < MaxSends
    /\ CASE outcome = "rejected" ->
              UNCHANGED <<chatbot_history, said, sends>>
         [] outcome = "failed" ->
              /\ chatbot_history' = Some(get_user_chat_history(chatbot_history))
              /\ UNCHANGED <<said, sends>>
         [] outcome = "answered" ->
              LET asked == add_to_chat_history(chatbot_history, "user", sends + 1)
              IN /\ chatbot_history' =
                      Some(add_to_chat_history(Some(asked), "assistant", sends + 1))
                 /\ said' = said \o <<[role |-> "user", content |-> sends + 1],
                                       [role |-> "assistant", content |-> sends + 1]>>
                 /\ sends' = sends + 1
    /\ UNCHANGED outside_chat

\* clear_history, lines 203-204.
ClearHistory ==
  /\ chatbot_history' = Some(<< >>)
  /\ said' = << >>
  /\ UNCHANGED <<sends, outside_chat>>

InitChat == IdleInit({})

NextChat == SendMessage \/ ClearHistory

SpecChat == InitChat /\ [][NextChat]_vars

\* ------------------------------------------------------ waiting for a job
\* wait_for_batch, line 412: the statuses that end the wait with an error.
FailureStatuses == {"failed", "cancelled", "expired"}

\* The statuses of a job that is still being worked on.
RunningStatuses == {"validating", "in_progress"}

WaitEnded == {"returned", "RuntimeError", "TimeoutError", "APIError"}

\* What wait_for_batch is called with, in poll ticks.
Timeouts == 0..MaxWait
PollIntervals == {1, 2}

\* The jobs a pending embed_batch call can have created.
SubmittedHashes == SUBSET {text_hash(t) : t \in TextSet} \ {{}}
SubmittedJobs == {BatchJob("validating", h, None) : h \in SubmittedHashes}

\* Lines 393-402: the vectors read from the output file, keyed by hash.
collected(job) == IF job.output = None THEN {} ELSE The(job.output)

\* The same iteration with a failed, cancelled or expired job taken as one
\* still in progress.
poll_once_ignoring_failures(w, job, t, c, api_ok) ==
  IF ~(t - w.start_time < w.timeout)
  THEN [wait |-> [w EXCEPT !.pc = "TimeoutError"], wall |-> t, cache |-> c]
  ELSE IF ~api_ok
  THEN [wait |-> [w EXCEPT !.pc = "APIError"], wall |-> t, cache |-> c]
  ELSE IF job.status = "completed"
  THEN [wait |-> [w EXCEPT !.pc = "returned", !.seen = job.status,
                           !.results = Some(collected(job))],
        wall |-> t, cache |-> c \cup collected(job)]
  ELSE [wait |-> [w EXCEPT !.seen = job.status],
        wall |-> t + w.poll_interval, cache |-> c]

\* wait_for_batch, lines 384-425: one pass of the loop at time t with cache
\* c.  The loop test, then batches.retrieve (api_ok tells whether it answers
\* or raises), then return, raise, or sleep poll_interval.
poll_once(w, job, t, c, api_ok) ==
  IF ~(t - w.start_time < w.timeout)
  THEN [wait |-> [w EXCEPT !.pc = "TimeoutError"], wall |-> t, cache |-> c]
  ELSE IF ~api_ok
  THEN [wait |-> [w EXCEPT !.pc = "APIError"], wall |-> t, cache |-> c]
  ELSE IF job.status = "completed"
  THEN [wait |-> [w EXCEPT !.pc = "returned", !.seen = job.status,
                           !.results = Some(collected(job))],
        wall |-> t, cache |-> c \cup collected(job)]
  ELSE IF job.status \in FailureStatuses
  THEN [wait |-> [w EXCEPT !.pc = "RuntimeError", !.seen = job.status],
        wall |-> t, cache |-> c]
  ELSE [wait |-> [w EXCEPT !.seen = job.status],
        wall |-> t + w.poll_interval, cache |-> c]

\* wait_for_batch, lines 379-382: the call begins.
WaitStart(timeout, poll_interval) ==
  /\ wait.pc = "idle"
  /\ batch.status # "none"
  /\ wait' = [pc |-> "loop", timeout |-> timeout, poll_interval |-> poll_interval,
              start_time |-> wall, seen |-> "none", results |-> None]
  /\ UNCHANGED <<batch, wall, cache, outside_batch>>

WaitPoll ==
  /\ wait.pc = "loop"
  /\ \E api_ok \in BOOLEAN :
       LET o == poll_once(wait, batch, wall, cache, api_ok)
       IN /\ wait' = o.wait
          /\ wall' = o.wall
          /\ cache' = o.cache
  /\ UNCHANGED <<batch, outside_batch>>

\* The job moves on at the provider: validated, then completed (with the
\* vectors of some or all of its texts, or with no output file), failed,
\* cancelled or expired.
JobAdvances ==
  /\ batch.status \in RunningStatuses
  /\ \/ /\ batch.status = "validating"
        /\ batch' = [batch EXCEPT !.status = "in_progress"]
     \/ \E status \in FailureStatuses : batch' = [batch EXCEPT !.status = status]
     \/ \E out \in {None} \cup {Some(h) : h \in SUBSET batch.hashes \ {{}}} :
          batch' = [batch EXCEPT !.status = "completed", !.output = out]
  /\ UNCHANGED <<wait, wall, cache, outside_batch>>

WaitBegins == \E timeout \in Timeouts, poll_interval \in PollIntervals :
                WaitStart(timeout, poll_interval)

InitWait ==
  /\ IdleInit({"batch"})
  /\ \E job \in SubmittedJobs : BatchInit(job)

NextWait == WaitBegins \/ WaitPoll \/ JobAdvances

\* The waiting thread keeps running; the job may stay in progress for ever.
SpecWait == InitWait /\ [][NextWait]_vars /\ WF_vars(WaitPoll)

\* ----------------------------------------------- updates left pending
\* process_upload, lines 190-198: the call has returned with the bulk job
\* pending.
PendingReturned(p) ==
  /\ pc[p] = "done" /\ result[p] # None
  /\ The(result[p]).message = "Batch processing started"

\* _embed_batch_api, lines 338-354: the job that the pending call created,
\* holding the content hash of every chunk text of the upload.
JobCreated ==
  /\ PendingReturned(1)
  /\ batch.status = "none"
  /\ batch' = BatchJob("validating",
                       {text_hash(c.text) : c \in chunk_events(extract_events(new_file[1]))},
                       None)
  /\ UNCHANGED <<wait, wall, cache, outside_batch>>

\* Somebody calls wait_for_batch for the job with a wait of MaxWait ticks.
\* No route or service of the program does; the call is made for it here.
WaitForJob == WaitStart(MaxWait, 1)

InitPending == IdleInit({})

NextPending ==
  SerialBegin \/ Step(1) \/ JobCreated \/ JobAdvances \/ WaitForJob \/ WaitPoll

\* Everything that can run does run: the request thread, the provider's
\* job, and a call that waits for it.  A new upload is never forced.
SpecPending ==
  /\ InitPending /\ [][NextPending]_vars
  /\ WF_vars(Step(1)) /\ WF_vars(JobCreated) /\ SF_vars(JobAdvances)
  /\ WF_vars(WaitForJob) /\ WF_vars(WaitPoll)

\* ------------------------------------------------- chunking many events
\* A chunk of the event at position event in the list handed over.
EventChunk(event, c) ==
  [event |-> event, chunk_index |-> c.chunk_index, token_count |-> c.token_count,
   total_chunks |-> c.total_chunks]

\* The fix-up applied to the first num_chunks entries of the list.
set_total_chunks_from_head(built, num_chunks) ==
  [k \in DOMAIN built |->
     IF k <= num_chunks
     THEN [built[k] EXCEPT !.total_chunks = num_chunks]
     ELSE built[k]]

\* chunk_events lines 424-425: chunks[-(num_chunks - i)] for i in
\* range(num_chunks) gets the total; Python's index -m is the m-th from
\* the end of the whole list.
set_total_chunks(built, num_chunks) ==
  [k \in DOMAIN built |->
     IF \E i \in 0..(num_chunks - 1) : k = Len(built) - (num_chunks - i) + 1
     THEN [built[k] EXCEPT !.total_chunks = num_chunks]
     ELSE built[k]]

\* chunk_events lines 375-425 for the event at position event, with built
\* the list built so far.
append_event(built, event, toks) ==
  IF Len(toks) <= ChunkSize
  THEN Append(built, EventChunk(event, TokenChunk(0, toks, 1)))
  ELSE LET windows == split_windows(toks, 0, 0)
       IN set_total_chunks(built \o [i \in DOMAIN windows |-> EventChunk(event, windows[i])],
                           Len(windows))

\* chunk_events, lines 340-429: the loop over the events, in order.
RECURSIVE chunk_events_upto(_, _)
chunk_events_upto(sizes, n) ==
  IF n = 0 THEN << >>
  ELSE append_event(chunk_events_upto(sizes, n - 1), n, EventTokens(sizes[n]))

\* Token counts around the chunk size: a short text, one that just fits,
\* one token more, and one that needs three windows.
EventSizes == {1, ChunkSize, ChunkSize + 1, 2 * ChunkSize - ChunkOverlap + 1}

SizeLists == UNION {[1..n -> EventSizes] : n \in 0..MaxEvents}

ChunkAllEvents ==
  /\ all_chunks = None
  /\ all_chunks' = Some(chunk_events_upto(event_sizes, Len(event_sizes)))
  /\ UNCHANGED <<event_sizes, outside_split>>

InitSplit ==
  /\ IdleInit({"split"})
  /\ \E sizes \in SizeLists : SplitInit(sizes)

NextSplit == ChunkAllEvents

SpecSplit == InitSplit /\ [][NextSplit]_vars

\* ------------------------------------------------------ request queue
\* Thread.is_alive of the thread _worker_thread refers to.
is_alive(threads, t) == t # 0 /\ threads[t].pc \notin {"unstarted", "stopped"}

\* start_worker without the look at the thread it already has.
start_worker_unchecked(threads, worker_thread, run) ==
  [running |-> TRUE, worker_thread |-> worker_thread + 1,
   threads |-> [threads EXCEPT ![worker_thread + 1].pc = "loop"]]

\* start_worker: nothing while the thread it has is alive; else the flag
\* is set and a new thread starts at the head of _worker.
start_worker(threads, worker_thread, run) ==
  IF is_alive(threads, worker_thread)
  THEN [running |-> run, worker_thread |-> worker_thread, threads |-> threads]
  ELSE [running |-> TRUE, worker_thread |-> worker_thread + 1,
        threads |-> [threads EXCEPT ![worker_thread + 1].pc = "loop"]]

StartWorker ==
  /\ q_worker_thread < MaxThreads
  /\ LET r == start_worker(q_threads, q_worker_thread, q_running)
     IN /\ q_running' = r.running
        /\ q_worker_thread' = r.worker_thread
        /\ q_threads' = r.threads
  /\ UNCHANGED <<q_requests, q_queue, q_callers, q_put, q_started, outside_queue>>

\* stop_worker: the flag goes down; the join only waits.
StopWorker ==
  /\ q_running
  /\ q_running' = FALSE
  /\ UNCHANGED <<q_requests, q_queue, q_worker_thread, q_threads, q_callers, q_put, q_started, outside_queue>>

\* _worker, the loop test: a thread that finds the flag down ends.
WorkerLoop(t) ==
  /\ q_threads[t].pc = "loop"
  /\ q_threads' = [q_threads EXCEPT ![t].pc = IF q_running THEN "get" ELSE "stopped"]
  /\ UNCHANGED <<q_requests, q_queue, q_running, q_worker_thread, q_callers, q_put, q_started, outside_queue>>

\* _worker, _queue.get(timeout=1): the oldest request of the queue, whose
\* function is called next; Empty sends the thread back to the loop test.
WorkerGet(t) ==
  /\ q_threads[t].pc = "get"
  /\ IF q_queue # << >>
     THEN /\ q_threads' = [q_threads EXCEPT ![t] = [pc |-> "func", request |-> Head(q_queue)]]
          /\ q_queue' = Tail(q_queue)
          /\ q_started' = Append(q_started, Head(q_queue))
     ELSE /\ q_threads' = [q_threads EXCEPT ![t].pc = "loop"]
          /\ UNCHANGED <<q_queue, q_started>>
  /\ UNCHANGED <<q_requests, q_running, q_worker_thread, q_callers, q_put, outside_queue>>

\* A worker that records nothing for a function that raises.
run_request_losing_errors(request, func) ==
  IF func = "returns"
  THEN [request EXCEPT !.result = Some("result"), !.completed = TRUE]
  ELSE request

\* _worker, the call of the function: the result, or the exception it
\* raised, is stored and the request is completed.
run_request(request, func) ==
  IF func = "returns"
  THEN [request EXCEPT !.result = Some("result"), !.completed = TRUE]
  ELSE [request EXCEPT !.error = Some("error"), !.completed = TRUE]

\* What the function of a request does when it is called.
FuncOutcomes == {"returns", "raises"}

\* The function of the request the thread holds returns or raises; a
\* request with callbacks has the matching one called next.
WorkerFunc(t) ==
  /\ q_threads[t].pc = "func"
  /\ LET id == q_threads[t].request
     IN /\ \E func \in FuncOutcomes :
             q_requests' = [q_requests EXCEPT ![id] = run_request(q_requests[id], func)]
        /\ q_threads' = [q_threads EXCEPT ![t] = IF q_requests[id].callback = "none"
                                                 THEN [pc |-> "loop", request |-> 0]
                                                 ELSE [pc |-> "callback", request |-> id]]
  /\ UNCHANGED <<q_queue, q_running, q_worker_thread, q_callers, q_put, q_started, outside_queue>>

\* _worker, callback or error_callback: what it raises is logged, and
\* task_done ends the round either way.
WorkerCallback(t) ==
  /\ q_threads[t].pc = "callback"
  /\ q_threads' = [q_threads EXCEPT ![t] = [pc |-> "loop", request |-> 0]]
  /\ UNCHANGED <<q_requests, q_queue, q_running, q_worker_thread, q_callers, q_put, q_started, outside_queue>>

RequestCallbacks == {"none", "raises"}

\* enqueue, first half: the request is created and tracked under the lock.
EnqueueRegister(c) ==
  /\ q_callers[c].pc = "idle"
  /\ \E callback \in RequestCallbacks :
       q_requests' = [q_requests EXCEPT ![c] = OpenAIRequest(callback)]
  /\ q_callers' = [q_callers EXCEPT ![c].pc = "registered"]
  /\ UNCHANGED <<q_queue, q_running, q_worker_thread, q_threads, q_put, q_started, outside_queue>>

\* enqueue, second half, with queuing enabled: the request is put on the
\* queue and handed back to the caller.
EnqueuePut(c) ==
  /\ q_callers[c].pc = "registered"
  /\ q_queue' = Append(q_queue, c)
  /\ q_put' = Append(q_put, c)
  /\ q_callers' = [q_callers EXCEPT ![c].pc = "enqueued"]
  /\ UNCHANGED <<q_requests, q_running, q_worker_thread, q_threads, q_started, outside_queue>>

\* Waiting forever, or for one sleep of the polling loop.
WaitTimeouts == {None, Some(1)}

\* wait_for_request is called for the request enqueue handed back.
WaitForRequest(c) ==
  /\ q_callers[c].pc = "enqueued"
  /\ \E timeout \in WaitTimeouts :
       q_callers' = [q_callers EXCEPT ![c] = [pc |-> "waiting", timeout |-> timeout, elapsed |-> 0]]
  /\ UNCHANGED <<q_requests, q_queue, q_running, q_worker_thread, q_threads, q_put, q_started, outside_queue>>

\* wait_for_request, one round of the loop: KeyError for an id not
\* tracked, the request when it is completed, TimeoutError when more than
\* the timeout has passed, else a sleep. Time is counted in sleeps, and
\* only for a wait that has a timeout.
wait_for_request(caller, request) ==
  IF request = NoRequest THEN [caller EXCEPT !.pc = "KeyError"]
  ELSE IF request.completed THEN [pc |-> "returned", timeout |-> None, elapsed |-> 0]
  ELSE IF caller.timeout # None /\ \A timeout \in caller.timeout : caller.elapsed > timeout
       THEN [caller EXCEPT !.pc = "TimeoutError"]
  ELSE IF caller.timeout # None THEN [caller EXCEPT !.elapsed = @ + 1]
  ELSE caller

WaitCheck(c) ==
  /\ q_callers[c].pc = "waiting"
  /\ q_callers' = [q_callers EXCEPT ![c] = wait_for_request(q_callers[c], q_requests[c])]
  /\ UNCHANGED <<q_requests, q_queue, q_running, q_worker_thread, q_threads, q_put, q_started, outside_queue>>

InitQueue == IdleInit({"queue"}) /\ QueueInit

WorkerStep(t) == WorkerLoop(t) \/ WorkerGet(t) \/ WorkerFunc(t) \/ WorkerCallback(t)

\* The queue with its worker stopped and started while requests come in.
NextFifo ==
  \/ StartWorker
  \/ StopWorker
  \/ \E t \in Threads : WorkerLoop(t) \/ WorkerGet(t) \/ WorkerFunc(t) \/ WorkerCallback(t)
  \/ \E c \in Callers : EnqueueRegister(c) \/ EnqueuePut(c)

SpecFifo == InitQueue /\ [][NextFifo]_vars

\* The callers that enqueue a request and then wait for it.
Waiters == 1..MaxWaiters

NextQueue ==
  \/ StopWorker
  \/ \E t \in Threads : WorkerLoop(t) \/ WorkerGet(t) \/ WorkerFunc(t) \/ WorkerCallback(t)
  \/ \E c \in Waiters : EnqueueRegister(c) \/ EnqueuePut(c) \/ WaitForRequest(c) \/ WaitCheck(c)

\* Every thread that can take a step gets to take it: the worker is a
\* thread of its own, and a caller inside enqueue or wait_for_request is
\* running.
SpecQueue ==
  /\ InitQueue
  /\ [][NextQueue]_vars
  /\ \A t \in Threads : WF_vars(WorkerStep(t))
  /\ \A c \in Waiters : WF_vars(EnqueuePut(c)) /\ WF_vars(WaitCheck(c))

\* ------------------------------------------------ query interpreter claims
\* The months the query names.
MonthsNamed(ps) ==
  {n \in DOMAIN month_names : \E i \in DOMAIN ps : ps[i] = month_names[n][1]}

\* The cues of the phrases of a query, each phrase read alone.
CuesOf(ps, now_date) == {time_cue(ps[i], now_date) : i \in DOMAIN ps} \ {0}

\* The first to the last day of month m of year y, by the calendar.
MonthOfYear(y, m) ==
  TimeFilters(Some(Ymd(y, m, 1)), Some(Ymd(y, m, DaysInMonth(y, m))))

\* C21: a query that names one month, no year and no cue of higher
\* precedence gets the date filter from the first to the last day of that
\* month in the system year.
C21_BareMonthIsMonthOfCurrentYear ==
  (/\ time_filters # None
   /\ Cardinality(MonthsNamed(phrases)) = 1
   /\ CuesOf(phrases, today) \subseteq {5, 6})
  => The(time_filters) = MonthOfYear(today[1], The(MonthsNamed(phrases)))

SeveralCues ==
  Cardinality({i \in DOMAIN phrases : time_cue(phrases[i], today) # 0}) >= 2

IsPrefix(a, b) == Len(a) <= Len(b) /\ SubSeq(b, 1, Len(a)) = a

\* C24: no metadata operation removes or changes a record of the update
\* history.
C24_HistoryAppendOnly ==
  [][IsPrefix(metadata.update_history, metadata'.update_history)]_vars

\* C25: once get_stats has returned, the metadata store's total_chunks is
\* the number of chunks in the index.
C25_GetStatsResyncsCounters ==
  (meta_return # None /\ The(meta_return).op = "get_stats")
  => metadata.current_version.total_chunks = Cardinality(collection)


\* ------------------------------------------------- table validation claims
HasMissingIds ==
  "ENTRY_#" \in table.columns /\ \E i \in DOMAIN table.rows : table.rows[i].entry = None

\* C26: validate_data says invalid exactly when a required column is missing
\* or the table is empty; rows without ENTRY_# add a warning only; and every
\* event of extract_events comes from a row that has its ENTRY_#.
C26_ValidationAndMissingIds ==
  /\ validation # None =>
       /\ ~The(validation).valid <=>
            (~(required_columns \subseteq table.columns) \/ Len(table.rows) = 0)
       /\ HasMissingIds => The(validation).warnings # {}
  /\ (extracted # None /\ The(extracted).kind = "events") =>
       \A k \in DOMAIN The(extracted).events :
         table.rows[The(extracted).events[k].row].entry # None

C26_Witness ==
  /\ validation # None /\ extracted # None
  /\ HasMissingIds
  /\ The(validation).valid
  /\ Len(The(extracted).events) = 1
  /\ Len(table.rows) = 2

\* ------------------------------------------------- session timeout claims
\* How long the call's session has lived and how long it has been idle.
SinceLogin(c) == c.now - fromisoformat(c.session.login_time).t
SinceActivity(c) == c.now - fromisoformat(c.session.last_activity).t

\* The call was made for a logged-in user whose timestamps both parse.
Timestamped(c) ==
  /\ c.authenticated
  /\ fromisoformat(c.session.login_time).ok
  /\ fromisoformat(c.session.last_activity).ok

\* C27: for an authenticated session, check_session_timeout says not expired
\* while both the time since login and the time since the last activity are
\* within their timeouts, expired for 'activity' whenever the time since
\* login exceeds the activity timeout, whatever the last activity, and
\* expired for 'inactivity' when only the inactivity timeout is exceeded.
C27_SessionTimeoutVerdict ==
  \A c \in timeout_check :
    Timestamped(c) =>
      /\ (SinceLogin(c) <= c.timeouts.activity /\ SinceActivity(c) <= c.timeouts.inactivity)
           => c.result = NotExpired
      /\ SinceLogin(c) > c.timeouts.activity => c.result = SessionExpired("activity")
      /\ (SinceLogin(c) <= c.timeouts.activity /\ SinceActivity(c) > c.timeouts.inactivity)
           => c.result = SessionExpired("inactivity")

\* A session past both timeouts was checked and reported for 'activity'.
C27_Witness ==
  \E c \in timeout_check :
    /\ Timestamped(c)
    /\ SinceLogin(c) > c.timeouts.activity
    /\ SinceActivity(c) > c.timeouts.inactivity
    /\ c.result = SessionExpired("activity")
\* --------------------------------------------------- chat history claims
\* C28: after any sequence of chat sends and history clears the stored chat
\* history holds at most 20 messages, and they are the most recent ones.
C28_HistoryHoldsLastTwenty ==
  LET history == get_user_chat_history(chatbot_history)
  IN /\ Len(history) <= ChatHistoryLimit
     /\ history = LastN(said, ChatHistoryLimit)

\* More than 20 messages were added since the last clear and older ones
\* have been dropped.
C28_Witness ==
  /\ Len(said) > ChatHistoryLimit
  /\ Len(get_user_chat_history(chatbot_history)) = ChatHistoryLimit
\* ------------------------------------------------- update pipeline order
\* Step 4 of the call has run: backup_id is bound, and when there was a
\* snapshot to save, its copy made at the call's time is in the backups.
BackupCreated(p) ==
  /\ backup_id[p] # None
  /\ pre[p].current_db # None =>
       \E b \in backups : /\ b.name = The(backup_id[p]) /\ b.suffix = "xlsx"
                           /\ b.content = The(pre[p].current_db)

\* Steps 5-6 have run to their end: the chunks of the upload are at hand.
EmbeddingsResolved(p) == chunks[p] = NewContent(p)

\* The bulk add has completed: every chunk of the upload is in the index.
BulkAddDone(p) == EmbeddingsResolved(p) /\ chunks[p] \subseteq collection

\* The version of the call is the recorded current version.
VersionRecorded(p) ==
  /\ metadata.current_version.id = version_id[p]
  /\ \E i \in DOMAIN metadata.update_history :
       metadata.update_history[i].version_id = version_id[p]

\* C29: every run of process_upload keeps the order of its steps: the index
\* changes only after the backup is created and all embeddings are resolved,
\* the version is recorded only after the bulk add has completed, and the
\* upload is promoted to current snapshot only after the version is recorded.
C29_StepOrder ==
  [][\A p \in {1} :
       /\ collection' # collection => BackupCreated(p) /\ EmbeddingsResolved(p)
       /\ metadata' # metadata => BackupCreated(p) /\ BulkAddDone(p)
       /\ (current_db' # current_db /\ current_db' = Some(new_file[p]))
            => BulkAddDone(p) /\ VersionRecorded(p)]_vars

\* A run over an existing snapshot went through every step and succeeded.
C29_Witness ==
  /\ Returned(1) /\ Res(1).success
  /\ Res(1).message = "Update successful"
  /\ pre[1].current_db # None /\ pre[1].collection # {}
  /\ current_db = Some(new_file[1]) /\ current_db # pre[1].current_db
  /\ VersionRecorded(1)

\* The call failed with an exception raised after the swap had completed.
FailedAfterSwap(p) ==
  /\ Returned(p)
  /\ backup_id[p] # None
  /\ Res(p).error = "copy"

\* C30: a call in which a step after the index swap fails returns with the
\* backed-up snapshot and the pre-update index content restored, and the
\* failed update's version is not the recorded current version.
C30_PostSwapFailureRestores ==
  \A p \in Procs :
    FailedAfterSwap(p) =>
      /\ SameSnapshot(p)
      /\ SameIndex(p)
      /\ metadata.current_version.id # version_id[p]
\* ------------------------------------------------ rank fusion claims
\* alpha/(60 + rank) for a document at the given rank of a list, and zero
\* for a document the list does not hold (rank 0 here).
Share(weight, rank) ==
  IF rank = 0 THEN <<0, 1>> ELSE <<weight[1], weight[2] * (60 + rank)>>

FusedScore(sem, kw, alpha, id) ==
  FracSum(Share(alpha, RankIn(sem, id)),
          Share(<<alpha[2] - alpha[1], alpha[2]>>, RankIn(kw, id)))

\* C33: reciprocal rank fusion scores each document alpha/(K + rank_sem) +
\* (1 - alpha)/(K + rank_kw) with ranks from 1, K = 60 and zero for a list
\* that lacks the document; the fused list holds every document of either
\* list once, by descending score, and hybrid_search returns its first k.
C33_RankFusion ==
  (Answered /\ Answer.op = "hybrid_search" /\ handle # "stale") =>
    LET sem == semantic_search(chroma, Answer.sem_order, Answer.top_k, Answer.filters)
        kw == keyword_search(chroma, Answer.kw_order, Answer.top_k, Answer.filters)
        fused == reciprocal_rank_fusion(sem, kw, Answer.alpha)
        score == combined_scores(sem, kw, Answer.alpha)
    IN /\ \A id \in DOMAIN score :
            FracEqual(score[id],
                      FracProd(<<Answer.alpha[2], 1>>, FusedScore(sem, kw, Answer.alpha, id)))
       /\ Range(fused) = Range(sem) \cup Range(kw)
       /\ \A i, j \in DOMAIN fused : i # j => fused[i] # fused[j]
       /\ \A i, j \in DOMAIN fused :
            i < j => ~FracGreater(score[fused[j]], score[fused[i]])
       /\ Answer.out.ids = Take(fused, Answer.top_k)
       /\ Len(Answer.out.ids) <= Answer.top_k

\* A hybrid search with the default alpha whose lists differ in order, and
\* which cut the fused list to k.
C33_Witness ==
  /\ Answered /\ Answer.op = "hybrid_search" /\ handle # "stale"
  /\ Answer.alpha = <<7, 10>>
  /\ LET sem == semantic_search(chroma, Answer.sem_order, Answer.top_k, Answer.filters)
         kw == keyword_search(chroma, Answer.kw_order, Answer.top_k, Answer.filters)
     IN /\ sem # kw /\ Range(sem) # Range(kw)
        /\ Len(Answer.out.ids) = Answer.top_k
        /\ Len(reciprocal_rank_fusion(sem, kw, Answer.alpha)) > Answer.top_k

\* The bulk job of the pending call has completed at the provider.
PendingJobCompleted == PendingReturned(1) /\ batch.status = "completed"

\* The index holds the chunks of the upload and the upload is the current
\* snapshot.
UploadApplied(p) ==
  /\ collection = chunk_events(extract_events(new_file[p]))
  /\ current_db = Some(new_file[p])

\* C31: pending is not the end of an update: once the bulk job of a call
\* that returned 'Batch processing started' has completed, the update
\* eventually completes (the index is swapped to the uploaded snapshot)
\* unless a new upload is made first.
C31_PendingUpdateCompletes ==
  PendingJobCompleted ~> (UploadApplied(1) \/ ~PendingReturned(1))

\* ------------------------------------------------------ re-ranking claims
\* Where the pairwise model puts a candidate: the smaller, the higher its
\* model score.
ModelRank(id) == RankIn(Answer.rr_order, id)

\* A retrieve call that asked for re-ranking, with the model loaded and its
\* scoring call answering, has been answered by the index.
RerankedRetrieve ==
  /\ Answered /\ Answer.op = "retrieve" /\ handle # "stale"
  /\ Answer.use_reranking /\ reranking_enabled
  /\ Answer.external_ok

\* C34: with re-ranking enabled and available, retrieve returns the k
\* candidates of the pool with the highest model scores, in descending
\* order of that score and carrying it as their score; never more than k.
C34_RerankReturnsTopKByModelScore ==
  RerankedRetrieve =>
    LET ids == Answer.out.ids
        pool == Range(AnswerCandidates)
    IN /\ Answer.out.kind = "results"
       /\ Len(ids) = Min(Answer.top_k, Cardinality(pool))
       /\ Range(ids) \subseteq pool
       /\ \A i, j \in DOMAIN ids : i < j => ModelRank(ids[i]) < ModelRank(ids[j])
       /\ \A c \in pool \ Range(ids), r \in Range(ids) : ModelRank(r) < ModelRank(c)
       /\ pool # {} => Answer.scored_by = "reranker"

\* The model's order differs from the retrieval order and the pool is
\* larger than k.
C34_Witness ==
  /\ RerankedRetrieve
  /\ Answer.top_k < Len(AnswerCandidates)
  /\ Answer.top_k > 1
  /\ Answer.out.ids # Take(AnswerCandidates, Answer.top_k)

\* C35: a failure of the re-ranking call during a query does not abort the
\* query: retrieve still returns results, those of the retrieval stage.
C35_RerankFailureFallsBack ==
  (answer # None /\ Answer.op = "retrieve" /\ Answer.predict_raised) =>
    /\ Answer.out.kind = "results"
    /\ Answer.out.ids = Take(AnswerCandidates, Answer.top_k)

\* ------------------------------------------------------ chunk index claims
\* The chunks of the event at position e, in the order they were returned.
ChunksOfEvent(e) ==
  LET Mine(c) == c.event = e
  IN SelectSeq(The(all_chunks), Mine)

\* C36: when chunk_events returns, the chunks of every event carry the
\* indices 0..n-1 in order, with no gap or repeat, and each of them has
\* total_chunks = n, never the placeholder -1; an event that fits the chunk
\* size has exactly one chunk, with index 0 and total 1.
C36_ChunkIndicesAndTotals ==
  all_chunks # None =>
    \A e \in DOMAIN event_sizes :
      LET cs == ChunksOfEvent(e)
      IN /\ Len(cs) >= 1
         /\ \A i \in DOMAIN cs : /\ cs[i].chunk_index = i - 1
                                  /\ cs[i].total_chunks = Len(cs)
         /\ event_sizes[e] <= ChunkSize => Len(cs) = 1

\* Two split events, one after the other, behind one that fits.
C36_Witness ==
  /\ all_chunks # None
  /\ Len(event_sizes) = 3
  /\ Len(ChunksOfEvent(1)) = 1
  /\ Len(ChunksOfEvent(2)) = 2
  /\ Len(ChunksOfEvent(3)) = 3

\* ------------------------------------------------------ bulk job claims
\* What the call that has ended reports agrees with what it saw.
WaitOutcomeRight ==
  /\ wait.pc = "returned" =>
       /\ wait.seen = "completed" /\ batch.status = "completed"
       /\ wait.results = Some(collected(batch))
       /\ collected(batch) \subseteq cache
  /\ wait.pc = "RuntimeError" => wait.seen \in FailureStatuses
  /\ wait.pc = "TimeoutError" =>
       /\ wait.seen \notin FailureStatuses \cup {"completed"}
       /\ wall - wait.start_time >= wait.timeout
  /\ wait.pc # "idle" => wall - wait.start_time < wait.timeout + wait.poll_interval

\* C32: wait_for_batch always ends within its bounded wait: it returns the
\* job's vectors, each stored in the cache, when it sees the job completed,
\* raises an error when it sees it failed, cancelled or expired, raises
\* TimeoutError when the timeout passes with no terminal status seen, and
\* never loops for ever.
C32_WaitForBatchTerminates ==
  /\ []WaitOutcomeRight
  /\ (wait.pc = "loop") ~> (wait.pc \in WaitEnded)

\* A wait that polled a job still in progress and then timed out.
C32_Witness ==
  /\ wait.pc = "TimeoutError"
  /\ wait.seen \in RunningStatuses
  /\ wait.timeout > 0

\* ---------------------------------------------------- request queue claims
\* The requests whose function is being executed.
FunctionsRunning == {t \in Threads : q_threads[t].pc = "func"}

\* The request's function has been started.
Started(id) == \E i \in DOMAIN q_started : q_started[i] = id

\* C37: with queuing enabled the request functions run one at a time and
\* in the order of the puts: a function that has started finds every
\* request put before its own completed, the starts follow the order of
\* the puts, and no two functions are running at once.
C37_OneAtATimeInFifoOrder ==
  /\ Cardinality(FunctionsRunning) <= 1
  /\ Len(q_started) <= Len(q_put)
  /\ \A i \in DOMAIN q_started : q_started[i] = q_put[i]
  /\ \A i \in DOMAIN q_put :
       Started(q_put[i]) => \A j \in 1..(i - 1) : q_requests[q_put[j]].completed

\* The third request put is running, the two before it are completed, and
\* the worker has been stopped and started again on the way.
C37_Witness ==
  /\ Len(q_put) = 3
  /\ Len(q_started) = 3
  /\ \E t \in Threads : q_threads[t].pc = "func" /\ q_threads[t].request = q_put[3]
  /\ q_requests[q_put[1]].completed /\ q_requests[q_put[2]].completed
  /\ q_worker_thread = 2

\* The request has been put on the queue.
Enqueued(id) == \E i \in DOMAIN q_put : q_put[i] = id

\* Completed with a result or with an error, one of the two.
CompletedWithOutcome(id) ==
  /\ q_requests[id].completed
  /\ (q_requests[id].result # None) # (q_requests[id].error # None)

\* What a wait that has ended reports agrees with the request.
WaitReturnsRight ==
  \A c \in Callers :
    /\ q_callers[c].pc = "returned" => q_requests[c].completed
    /\ q_callers[c].pc = "TimeoutError" =>
         /\ q_callers[c].timeout # None
         /\ \A timeout \in q_callers[c].timeout : q_callers[c].elapsed > timeout
    /\ q_requests[c].completed => CompletedWithOutcome(c)

\* C38: while the worker flag is up every request put on the queue gets
\* completed, with a result or with an error, whatever the requests before
\* it and their callbacks raised; a wait returns only a completed request,
\* raises TimeoutError only after more than the timeout, and a wait with a
\* timeout for a tracked request ends in one of the two.
C38_EveryRequestCompletes ==
  /\ []WaitReturnsRight
  /\ \A c \in Callers : Enqueued(c) ~> (CompletedWithOutcome(c) \/ ~q_running)
  /\ \A c \in Callers :
       (q_callers[c].pc = "waiting" /\ q_callers[c].timeout # None)
         ~> (q_callers[c].pc \in {"returned", "TimeoutError", "KeyError"})

\* A request completed with a result behind one whose function raised and
\* that had callbacks, one wait returned and another timed out.
C38_Witness ==
  /\ Len(q_started) >= 2
  /\ q_requests[q_started[1]].callback = "raises"
  /\ q_requests[q_started[1]].error # None
  /\ q_requests[q_started[2]].completed
  /\ q_requests[q_started[2]].result # None
  /\ \E c \in Callers : q_callers[c].pc = "returned"
  /\ \E c \in Callers : q_callers[c].pc = "TimeoutError"

\* C39: a result of embed_batch that is not pending has a vector under the
\* hash of every input text, cached or not and duplicates included, so the
\* lookup per chunk finds one vector per chunk, in chunk order, and
\* add_documents gets two lists of equal length.
C39_ResultCoversEveryText ==
  (embed_call # None /\ LastCall.out.result.kind = "vectors") =>
    LET found == chunk_embeddings(LastCall.texts, LastCall.out.result)
    IN /\ HashesOf(LastCall.texts) \subseteq LastCall.out.result.keys
       /\ found.kind = "list"
       /\ \A i \in DOMAIN LastCall.texts : found.embeddings[i] = text_hash(LastCall.texts[i])
       /\ add_documents_accepts(LastCall.texts, found.embeddings)

\* A text twice and uncached next to a cached one, answered with vectors.
C39_Witness ==
  /\ embed_call # None
  /\ LastCall.out.result.kind = "vectors"
  /\ LastCall.use_cache
  /\ \E i, j, k \in DOMAIN LastCall.texts :
       /\ i < j
       /\ LastCall.texts[i] = LastCall.texts[j]
       /\ text_hash(LastCall.texts[i]) \notin LastCall.cache_before
       /\ text_hash(LastCall.texts[k]) \in LastCall.cache_before

====
